---- MODULE Spec2Model ----
\* A model of the natural-language map backend (src/backend/backend.py): the
\* intent router route_by_intent, the SQL synthesis pipeline
\* natural_language_to_sql / handle_data_query / query_postgis and the /query
\* endpoint that dispatches between them.
\*
\* Text is a sequence of one-character strings, so that strip, split, upper,
\* isalpha, the regular expressions and json.loads are computed character by
\* character as Python computes them.
EXTENDS Integers, Sequences, FiniteSets, TLC

\* ------------------------------------------------------------------ characters

LowerLetters ==
    <<"a","b","c","d","e","f","g","h","i","j","k","l","m",
      "n","o","p","q","r","s","t","u","v","w","x","y","z">>

UpperLetters ==
    <<"A","B","C","D","E","F","G","H","I","J","K","L","M",
      "N","O","P","Q","R","S","T","U","V","W","X","Y","Z">>

Digits == <<"0","1","2","3","4","5","6","7","8","9">>

InSeq(c, s) == \E i \in 1..Len(s) : s[i] = c

IndexIn(c, s) == CHOOSE i \in 1..Len(s) : s[i] = c

\* str.isspace for the characters of the model: space and newline.
IsSpace(c) == c \in {" ", "\n"}

IsUpperChar(c) == InSeq(c, UpperLetters)

IsLowerChar(c) == InSeq(c, LowerLetters)

\* str.isalpha on one character.
IsAlpha(c) == IsUpperChar(c) \/ IsLowerChar(c)

IsDigit(c) == InSeq(c, Digits)

\* \w of the re module: letters, digits and the underscore.
IsWordChar(c) == IsAlpha(c) \/ IsDigit(c) \/ c = "_"

UpperChar(c) == IF IsLowerChar(c) THEN UpperLetters[IndexIn(c, LowerLetters)] ELSE c

LowerChar(c) == IF IsUpperChar(c) THEN LowerLetters[IndexIn(c, UpperLetters)] ELSE c

\* ------------------------------------------------------------------ str methods

\* str.upper
upper(s) == [i \in 1..Len(s) |-> UpperChar(s[i])]

\* str.lower
lower(s) == [i \in 1..Len(s) |-> LowerChar(s[i])]

\* s[i:] with i counted from 1.
From(s, i) == SubSeq(s, i, Len(s))

\* s[i:i+len(sub)] == sub, with i counted from 1.
MatchAt(s, i, sub) ==
    /\ i >= 1
    /\ i + Len(sub) - 1 <= Len(s)
    /\ SubSeq(s, i, i + Len(sub) - 1) = sub

\* str.find, counted from 1: the first index where sub occurs, 0 when it does not.
find(s, sub) ==
    IF \E i \in 1..Len(s) + 1 : MatchAt(s, i, sub)
    THEN CHOOSE i \in 1..Len(s) + 1 :
            MatchAt(s, i, sub) /\ \A j \in 1..i-1 : ~MatchAt(s, j, sub)
    ELSE 0

\* sub in s
contains(s, sub) == find(s, sub) # 0

\* The index of the first character at or after i that is not whitespace,
\* Len(s) + 1 when there is none.
SkipSpace(s, i) ==
    IF \E k \in i..Len(s) : ~IsSpace(s[k])
    THEN CHOOSE k \in i..Len(s) : ~IsSpace(s[k]) /\ \A j \in i..k-1 : IsSpace(s[j])
    ELSE Len(s) + 1

\* str.strip: from the first to the last character that is not whitespace.
strip(s) ==
    IF \E k \in 1..Len(s) : ~IsSpace(s[k])
    THEN SubSeq(s, SkipSpace(s, 1),
                CHOOSE k \in 1..Len(s) : ~IsSpace(s[k]) /\ \A j \in k+1..Len(s) : IsSpace(s[j]))
    ELSE <<>>

\* s.split()[0] for a text that holds a token: the first run of characters
\* that are not whitespace.
first_token(s) ==
    LET b == SkipSpace(s, 1)
        e == IF \E k \in b..Len(s) : IsSpace(s[k])
             THEN (CHOOSE k \in b..Len(s) : IsSpace(s[k]) /\ \A j \in b..k-1 : ~IsSpace(s[j])) - 1
             ELSE Len(s)
    IN  SubSeq(s, b, e)

\* str.replace(old, new, 1): the first occurrence replaced, none when absent.
replace_first(s, old, new) ==
    LET i == find(s, old)
    IN  IF i = 0 THEN s
        ELSE SubSeq(s, 1, i - 1) \o new \o From(s, i + Len(old))

\* s[:-1]
drop_last(s) == SubSeq(s, 1, Len(s) - 1)

\* ''.join(c for c in s if c.isalpha())
only_alpha(s) == SelectSeq(s, IsAlpha)

\* ------------------------------------------------------------------ json.loads

\* A decoded JSON value: t is its Python type ("str", "num", "bool", "null",
\* "list", "dict"); s is the text of a string or of a number, k the keys of a
\* dict in the order read, a the items of a list or the values of a dict.
JVal(t, s, k, a) == [t |-> t, s |-> s, k |-> k, a |-> a]

JNull == JVal("null", <<>>, <<>>, <<>>)

JStr(s) == JVal("str", s, <<>>, <<>>)

JNum(s) == JVal("num", s, <<>>, <<>>)

JBool(s) == JVal("bool", s, <<>>, <<>>)

JList(a) == JVal("list", <<>>, <<>>, a)

JDict(k, a) == JVal("dict", <<>>, k, a)

\* The result of a scan: the value read and the index after it.
JFail == [ok |-> FALSE, val |-> JNull, next |-> 0]

JOk(v, n) == [ok |-> TRUE, val |-> v, next |-> n]

CharAt(s, i) == IF i >= 1 /\ i <= Len(s) THEN s[i] ELSE "<EOF>"

\* The index after the run of digits that starts at i (i itself when none).
DigitsEnd(s, i) ==
    IF \E k \in i..Len(s) : ~IsDigit(s[k])
    THEN CHOOSE k \in i..Len(s) : ~IsDigit(s[k]) /\ \A j \in i..k-1 : IsDigit(s[j])
    ELSE IF i > Len(s) + 1 THEN i ELSE Len(s) + 1

RECURSIVE json_chars(_, _, _)

\* json.decoder.py_scanstring after a chunk: acc holds the characters read
\* before s[j], the chunk is s[j..e-1] and e is the place of the character
\* that ended it. A double quote closes the string; a raw control character,
\* or the end of the text, is invalid; a backslash escapes the character
\* after it. (The escape \uXXXX is no part of the texts of the model.)
json_chunk(s, j, e, acc) ==
    CASE CharAt(s, e) = "\"" -> JOk(JStr(acc \o SubSeq(s, j, e - 1)), e + 1)
      [] CharAt(s, e) = "\\" /\ CharAt(s, e + 1) \in {"\"", "\\", "/"} ->
             json_chars(s, e + 2, Append(acc \o SubSeq(s, j, e - 1), s[e + 1]))
      [] CharAt(s, e) = "\\" /\ CharAt(s, e + 1) \in {"n", "t", "r", "f", "b"} ->
             json_chars(s, e + 2,
                        Append(acc \o SubSeq(s, j, e - 1),
                               CASE s[e + 1] = "n" -> "\n"
                                 [] s[e + 1] = "t" -> "\t"
                                 [] s[e + 1] = "r" -> "\r"
                                 [] s[e + 1] = "f" -> "\f"
                                 [] s[e + 1] = "b" -> "<backspace>"))
      [] OTHER -> JFail

\* json.decoder.py_scanstring: the characters of a string from s[j] on, acc
\* being those read so far. STRINGCHUNK matches the characters before the
\* first double quote, backslash or control character, which are taken as
\* they are.
json_chars(s, j, acc) ==
    json_chunk(s, j,
               IF \E k \in j..Len(s) : s[k] \in {"\"", "\\", "\n", "\t", "\r", "\f"}
               THEN CHOOSE k \in j..Len(s) :
                        /\ s[k] \in {"\"", "\\", "\n", "\t", "\r", "\f"}
                        /\ \A i \in j..k-1 : s[i] \notin {"\"", "\\", "\n", "\t", "\r", "\f"}
               ELSE Len(s) + 1,
               acc)

\* The string that opens at s[i].
json_string(s, i) == json_chars(s, i + 1, <<>>)

\* NUMBER_RE of json.scanner: (-?(?:0|[1-9]\d*))(\.\d+)?([eE][-+]?\d+)?
json_number(s, i) ==
    LET d  == IF CharAt(s, i) = "-" THEN i + 1 ELSE i
        ie == IF CharAt(s, d) = "0" THEN d + 1 ELSE DigitsEnd(s, d)
        fe == IF CharAt(s, ie) = "." /\ DigitsEnd(s, ie + 1) > ie + 1
              THEN DigitsEnd(s, ie + 1) ELSE ie
        xs == IF CharAt(s, fe + 1) \in {"-", "+"} THEN fe + 2 ELSE fe + 1
        xe == IF CharAt(s, fe) \in {"e", "E"} /\ DigitsEnd(s, xs) > xs
              THEN DigitsEnd(s, xs) ELSE fe
    IN  IF ie = d THEN JFail ELSE JOk(JNum(SubSeq(s, i, xe - 1)), xe)

RECURSIVE json_value(_, _)
RECURSIVE json_members(_, _, _, _)
RECURSIVE json_items(_, _, _)

\* After "{" or "[": the empty container when it closes at k, its members or
\* items from k on otherwise.
json_container(s, c, k) ==
    CASE c = "{" /\ CharAt(s, k) = "}" -> JOk(JDict(<<>>, <<>>), k + 1)
      [] c = "{" /\ CharAt(s, k) # "}" -> json_members(s, k, <<>>, <<>>)
      [] c = "[" /\ CharAt(s, k) = "]" -> JOk(JList(<<>>), k + 1)
      [] OTHER -> json_items(s, k, <<>>)

\* The literals and numbers of the scanner, for the character c at s[i].
json_scalar(s, i, c) ==
    CASE MatchAt(s, i, <<"n","u","l","l">>) -> JOk(JNull, i + 4)
      [] MatchAt(s, i, <<"t","r","u","e">>) -> JOk(JBool(<<"t","r","u","e">>), i + 4)
      [] MatchAt(s, i, <<"f","a","l","s","e">>) -> JOk(JBool(<<"f","a","l","s","e">>), i + 5)
      [] IsDigit(c) \/ (c = "-" /\ IsDigit(CharAt(s, i + 1))) -> json_number(s, i)
      [] MatchAt(s, i, <<"N","a","N">>) -> JOk(JNum(<<"N","a","N">>), i + 3)
      [] MatchAt(s, i, <<"I","n","f","i","n","i","t","y">>) ->
             JOk(JNum(SubSeq(s, i, i + 7)), i + 8)
      [] MatchAt(s, i, <<"-","I","n","f","i","n","i","t","y">>) ->
             JOk(JNum(SubSeq(s, i, i + 8)), i + 9)
      [] OTHER -> JFail

\* json.scanner.py_make_scanner._scan_once: the value that starts at s[i].
json_value(s, i) ==
    CASE CharAt(s, i) = "\"" -> json_string(s, i)
      [] CharAt(s, i) \in {"{", "["} -> json_container(s, CharAt(s, i), SkipSpace(s, i + 1))
      [] OTHER -> json_scalar(s, i, CharAt(s, i))

\* A member whose key is read and whose value scanned as v: "}" after the
\* value closes the dict, "," asks for one more member, whose key must
\* follow.
json_member_value(s, key, v, keys, vals) ==
    CASE v.ok /\ CharAt(s, SkipSpace(s, v.next)) = "}" ->
             JOk(JDict(Append(keys, key), Append(vals, v.val)), SkipSpace(s, v.next) + 1)
      [] v.ok /\ CharAt(s, SkipSpace(s, v.next)) = "," ->
             json_members(s, SkipSpace(s, SkipSpace(s, v.next) + 1),
                          Append(keys, key), Append(vals, v.val))
      [] OTHER -> JFail

\* A member whose key scanned as key: ":" after it, then the value.
json_member_colon(s, key, keys, vals) ==
    IF ~key.ok \/ CharAt(s, SkipSpace(s, key.next)) # ":" THEN JFail
    ELSE json_member_value(s, key.val.s,
                           json_value(s, SkipSpace(s, SkipSpace(s, key.next) + 1)),
                           keys, vals)

\* json.decoder.JSONObject: the members of a dict from the key at s[i] on,
\* which must open with a double quote.
json_members(s, i, keys, vals) ==
    json_member_colon(s, IF CharAt(s, i) = "\"" THEN json_string(s, i) ELSE JFail, keys, vals)

\* An item whose scan is v: "]" after it closes the list, "," asks for one
\* more item.
json_item(s, v, items) ==
    CASE v.ok /\ CharAt(s, SkipSpace(s, v.next)) = "]" ->
             JOk(JList(Append(items, v.val)), SkipSpace(s, v.next) + 1)
      [] v.ok /\ CharAt(s, SkipSpace(s, v.next)) = "," ->
             json_items(s, SkipSpace(s, SkipSpace(s, v.next) + 1), Append(items, v.val))
      [] OTHER -> JFail

\* json.decoder.JSONArray: the items of a list from the value at s[i] on.
json_items(s, i, items) == json_item(s, json_value(s, i), items)

\* The document scanned as r: JSONDecodeError when nothing was decoded or
\* data follows the value.
json_document(text, r) ==
    IF r.ok /\ SkipSpace(text, r.next) = Len(text) + 1
    THEN [exc |-> "none", val |-> r.val]
    ELSE [exc |-> "JSONDecodeError", val |-> JNull]

\* json.loads(text)
json_loads(text) == json_document(text, json_value(text, SkipSpace(text, 1)))

\* key in d, for a decoded dict d.
dict_has(d, key) == \E i \in 1..Len(d.k) : d.k[i] = key

\* d[key]: of a key read twice the last value stands.
dict_get(d, key) ==
    d.a[CHOOSE i \in 1..Len(d.k) : d.k[i] = key /\ \A j \in i+1..Len(d.k) : d.k[j] # key]

\* ------------------------------------------------------------------ route_by_intent

INTENT_ACTION == <<"A","C","T","I","O","N">>

INTENT_FILTER == <<"F","I","L","T","E","R">>

INTENT_HELP == <<"H","E","L","P">>

\* The three intents the router validates against.
VALID_INTENTS == {INTENT_ACTION, INTENT_FILTER, INTENT_HELP}

KEY_RESPONSE == <<"r","e","s","p","o","n","s","e">>

\* "then the output would be"
OUTPUT_PHRASE ==
    <<"t","h","e","n"," ","t","h","e"," ","o","u","t","p","u","t"," ","w","o","u","l","d"," ","b","e">>

\* The None of Python: no character sequence.
None == <<"None">>

\* A reply of llm_service.generate_response: the text it returns, or the
\* exception it raises.
GenText(text) == [kind |-> "text", text |-> text, exc |-> "none"]

GenRaise(exc) == [kind |-> "raise", text |-> <<>>, exc |-> exc]

\* The try/except around json.loads(response) and response_data["response"].strip(),
\* for the text decoded as r: JSONDecodeError and KeyError are caught and the
\* text is used directly; a decoded value that is no dict raises TypeError on
\* the subscript, and a response field that is no str raises AttributeError
\* on .strip().
unwrap_decoded(response, r) ==
    IF r.exc = "JSONDecodeError"
    THEN [exc |-> "none", text |-> strip(response)]
    ELSE IF r.val.t # "dict"
    THEN [exc |-> "TypeError", text |-> <<>>]
    ELSE IF ~dict_has(r.val, KEY_RESPONSE)
    THEN [exc |-> "none", text |-> strip(response)]
    ELSE IF dict_get(r.val, KEY_RESPONSE).t # "str"
    THEN [exc |-> "AttributeError", text |-> <<>>]
    ELSE [exc |-> "none", text |-> strip(dict_get(r.val, KEY_RESPONSE).s)]

\* The classification text of a reply: the response field of a JSON wrapper,
\* the text itself otherwise.
unwrap_response(response) == unwrap_decoded(response, json_loads(response))

\* The index after the run of capitals A-Z that starts at i.
CapitalsEnd(s, i) ==
    IF \E k \in i..Len(s) : ~IsUpperChar(s[k])
    THEN CHOOSE k \in i..Len(s) : ~IsUpperChar(s[k]) /\ \A j \in i..k-1 : IsUpperChar(s[j])
    ELSE IF i > Len(s) + 1 THEN i ELSE Len(s) + 1

\* '([A-Z]+)' matches at i.
QuotedCapitalsAt(s, i) ==
    /\ CharAt(s, i) = "'"
    /\ CapitalsEnd(s, i + 1) > i + 1
    /\ CharAt(s, CapitalsEnd(s, i + 1)) = "'"

\* re.search(r"'([A-Z]+)'", text): the leftmost match and its group 1.
search_quoted_capitals(text) ==
    IF \E i \in 1..Len(text) : QuotedCapitalsAt(text, i)
    THEN LET i == CHOOSE i \in 1..Len(text) :
                     QuotedCapitalsAt(text, i) /\ \A j \in 1..i-1 : ~QuotedCapitalsAt(text, j)
         IN  [found |-> TRUE, group |-> SubSeq(text, i + 1, CapitalsEnd(text, i + 1) - 1)]
    ELSE [found |-> FALSE, group |-> <<>>]

\* Mutant of first_token_upper: the token is not uppercased.
first_token_as_written(intent_text) ==
    IF intent_text # <<>> THEN first_token(intent_text) ELSE INTENT_ACTION

\* intent_text.split()[0].upper() if intent_text else "ACTION"
first_token_upper(intent_text) ==
    IF intent_text # <<>> THEN upper(first_token(intent_text)) ELSE INTENT_ACTION

\* Mutant of quoted_or_first: the match is not used.
quoted_ignored(intent_text, match) == first_token_upper(intent_text)

\* The word taken from a text that holds the phrase: group 1 of the match,
\* the first token when nothing matched.
quoted_or_first(intent_text, match) ==
    IF match.found THEN match.group ELSE first_token_upper(intent_text)

\* Mutant of extract_intent: the quoted word is searched for whether or not
\* the text holds the phrase.
extract_intent_any_quoted(intent_text) ==
    quoted_or_first(intent_text, search_quoted_capitals(intent_text))

\* The extraction of the classification word: the quoted word when the text
\* holds the phrase and a quoted word in capitals, the first token otherwise.
extract_intent(intent_text) ==
    IF contains(lower(intent_text), OUTPUT_PHRASE)
    THEN quoted_or_first(intent_text, search_quoted_capitals(intent_text))
    ELSE first_token_upper(intent_text)

\* Mutant of validate_intent: the word is returned unvalidated.
validate_intent_skipped(intent) == intent

\* The validation: a word that is none of the three intents becomes ACTION.
validate_intent(intent) ==
    IF intent \notin VALID_INTENTS THEN INTENT_ACTION ELSE intent

\* Mutant of route_except: the error is printed and raised again.
route_except_reraise(exc) == [intent |-> None, logged |-> exc, raised |-> exc]

\* The except clause of route_by_intent: the error is printed and ACTION is
\* returned; nothing is raised to the caller.
route_except(exc) == [intent |-> INTENT_ACTION, logged |-> exc, raised |-> "none"]

\* The body of "if response:" once the classification text u is unwrapped.
classify(u) ==
    IF u.exc # "none" THEN route_except(u.exc)
    ELSE [intent |-> validate_intent(only_alpha(extract_intent(u.text))),
          logged |-> "none", raised |-> "none"]

\* route_by_intent for one reply of the generator: the intent returned, the
\* error printed by the except clause and the exception raised to the caller.
route_by_intent(reply) ==
    IF reply.kind = "raise" THEN route_except(reply.exc)
    ELSE IF reply.text = <<>> THEN route_except("HTTPException")
    ELSE classify(unwrap_response(reply.text))

\* ------------------------------------------------------------------ natural_language_to_sql

\* The backquote, which a TLA+ string cannot hold, has a name of its own.
TICK == "<backquote>"

\* "```sql"
FENCE_SQL == <<TICK,TICK,TICK,"s","q","l">>

\* "```"
FENCE == <<TICK,TICK,TICK>>

\* "-- primary_layer: "
PRIMARY_LAYER_COMMENT ==
    <<"-","-"," ","p","r","i","m","a","r","y","_","l","a","y","e","r",":"," ">>

\* "id"
WORD_ID == <<"i","d">>

\* "SELECT"
KEYWORD_SELECT == <<"S","E","L","E","C","T">>

\* "SELECT id, "
SELECT_ID == <<"S","E","L","E","C","T"," ","i","d",","," ">>

\* "SELECT id FROM ("
ENVELOPE_OPEN ==
    <<"S","E","L","E","C","T"," ","i","d"," ","F","R","O","M"," ","(">>

\* ") AS subquery;"
ENVELOPE_CLOSE ==
    <<")"," ","A","S"," ","s","u","b","q","u","e","r","y",";">>

\* re.sub(r'^```sql\s*', '', s): the opening fence and the whitespace after it.
strip_fence_open(s) ==
    IF MatchAt(s, 1, FENCE_SQL) THEN From(s, SkipSpace(s, Len(FENCE_SQL) + 1)) ELSE s

\* The index where $ matches after a closing fence: the end of the text, or
\* the place before a newline that ends it; 0 when no fence closes the text.
FenceCloseEnd(s) ==
    IF MatchAt(s, Len(s) - 2, FENCE) THEN Len(s)
    ELSE IF CharAt(s, Len(s)) = "\n" /\ MatchAt(s, Len(s) - 3, FENCE) THEN Len(s) - 1
    ELSE 0

\* Mutant of strip_fence_close: the closing fence is left in the text.
strip_fence_close_kept(s) == s

\* re.sub(r'\s*```$', '', s): the closing fence and the whitespace before it.
strip_fence_close(s) ==
    LET e == FenceCloseEnd(s)
        b == IF \E k \in 1..e-3 : ~IsSpace(s[k])
             THEN (CHOOSE k \in 1..e-3 : ~IsSpace(s[k]) /\ \A j \in k+1..e-3 : IsSpace(s[j])) + 1
             ELSE 1
    IN  IF e = 0 THEN s ELSE SubSeq(s, 1, b - 1) \o From(s, e + 1)

\* The cleaning of the reply: strip(), then the two fence substitutions.
clean_sql(response) == strip_fence_close(strip_fence_open(strip(response)))

\* The index after the run of \w characters that starts at i.
WordEnd(s, i) ==
    IF \E k \in i..Len(s) : ~IsWordChar(s[k])
    THEN CHOOSE k \in i..Len(s) : ~IsWordChar(s[k]) /\ \A j \in i..k-1 : IsWordChar(s[j])
    ELSE IF i > Len(s) + 1 THEN i ELSE Len(s) + 1

\* "-- primary_layer: (\w+)" matches at i.
PrimaryLayerAt(s, i) ==
    /\ MatchAt(s, i, PRIMARY_LAYER_COMMENT)
    /\ IsWordChar(CharAt(s, i + Len(PRIMARY_LAYER_COMMENT)))

\* Mutant of extract_primary_layer: the identifier is lowercased.
extract_primary_layer_lowered(sql_query) ==
    IF \E i \in 1..Len(sql_query) : PrimaryLayerAt(sql_query, i)
    THEN LET i == CHOOSE i \in 1..Len(sql_query) :
                     PrimaryLayerAt(sql_query, i) /\ \A j \in 1..i-1 : ~PrimaryLayerAt(sql_query, j)
             b == i + Len(PRIMARY_LAYER_COMMENT)
         IN  lower(SubSeq(sql_query, b, WordEnd(sql_query, b) - 1))
    ELSE None

\* Mutant of extract_primary_layer: the identifier of the last comment.
extract_primary_layer_last(sql_query) ==
    IF \E i \in 1..Len(sql_query) : PrimaryLayerAt(sql_query, i)
    THEN LET i == CHOOSE i \in 1..Len(sql_query) :
                     /\ PrimaryLayerAt(sql_query, i)
                     /\ \A j \in i+1..Len(sql_query) : ~PrimaryLayerAt(sql_query, j)
             b == i + Len(PRIMARY_LAYER_COMMENT)
         IN  SubSeq(sql_query, b, WordEnd(sql_query, b) - 1)
    ELSE None

\* re.search(r"-- primary_layer: (\w+)", sql_query): group 1 of the leftmost
\* match, None when there is no match.
extract_primary_layer(sql_query) ==
    IF \E i \in 1..Len(sql_query) : PrimaryLayerAt(sql_query, i)
    THEN LET i == CHOOSE i \in 1..Len(sql_query) :
                     PrimaryLayerAt(sql_query, i) /\ \A j \in 1..i-1 : ~PrimaryLayerAt(sql_query, j)
             b == i + Len(PRIMARY_LAYER_COMMENT)
         IN  SubSeq(sql_query, b, WordEnd(sql_query, b) - 1)
    ELSE None

\* if "id" not in sql_query.lower(): the first "SELECT" becomes "SELECT id, ".
ensure_id(sql_query) ==
    IF ~contains(lower(sql_query), WORD_ID)
    THEN replace_first(sql_query, KEYWORD_SELECT, SELECT_ID)
    ELSE sql_query

\* Mutant of wrap_subquery: the envelope is not closed by a semicolon.
wrap_subquery_unterminated(sql_query) ==
    ENVELOPE_OPEN \o drop_last(sql_query) \o drop_last(ENVELOPE_CLOSE)

\* f"SELECT id FROM ({sql_query[:-1]}) AS subquery;"
wrap_subquery(sql_query) == ENVELOPE_OPEN \o drop_last(sql_query) \o ENVELOPE_CLOSE

\* The body of "if response:" for the cleaned text: the pair returned.
synthesize(sql_query) ==
    [exc |-> "none",
     sql_query |-> wrap_subquery(ensure_id(sql_query)),
     primary_layer |-> extract_primary_layer(sql_query)]

\* natural_language_to_sql for one reply of the generator: the pair it
\* returns, or the exception of the generator, which it does not catch.
natural_language_to_sql(reply) ==
    IF reply.kind = "raise"
    THEN [exc |-> reply.exc, sql_query |-> <<>>, primary_layer |-> None]
    ELSE IF reply.text # <<>>
    THEN synthesize(clean_sql(reply.text))
    ELSE \* "ERROR: SQL query not found in the response."
         [exc |-> "none",
          sql_query |-> <<"E","R","R","O","R",":"," ","S","Q","L"," ","q","u","e","r","y"," ","n","o","t"," ","f","o","u","n","d"," ","i","n"," ","t","h","e"," ","r","e","s","p","o","n","s","e",".">>,
          primary_layer |-> None]

\* ------------------------------------------------------------------ handle_map_action

\* "```json"
FENCE_JSON == <<TICK,TICK,TICK,"j","s","o","n">>

\* "intent"
KEY_INTENT ==
    <<"i","n","t","e","n","t">>

\* "parameters"
KEY_PARAMETERS ==
    <<"p","a","r","a","m","e","t","e","r","s">>

\* "layer"
KEY_LAYER ==
    <<"l","a","y","e","r">>

\* "action"
KEY_ACTION ==
    <<"a","c","t","i","o","n">>

\* "type"
KEY_TYPE ==
    <<"t","y","p","e">>

\* "restore_original"
KEY_RESTORE_ORIGINAL ==
    <<"r","e","s","t","o","r","e","_","o","r","i","g","i","n","a","l">>

\* "CLUSTER"
VALUE_CLUSTER ==
    <<"C","L","U","S","T","E","R">>

\* "ADD"
VALUE_ADD ==
    <<"A","D","D">>

\* "REMOVE"
VALUE_REMOVE ==
    <<"R","E","M","O","V","E">>

\* "action"
VALUE_ACTION ==
    <<"a","c","t","i","o","n">>

\* d.get(key, default), for a decoded dict d.
py_get(d, key, default) == IF dict_has(d, key) THEN dict_get(d, key) ELSE default

\* d[key] = v: the value of a key the dict holds is replaced where it stands,
\* a new key is added after the others.
dict_set(d, key, v) ==
    IF dict_has(d, key)
    THEN JDict(d.k, [i \in 1..Len(d.k) |-> IF d.k[i] = key THEN v ELSE d.a[i]])
    ELSE JDict(Append(d.k, key), Append(d.a, v))

\* not v: None, False, zero and the empty string, list and dict are false.
\* The text of a number that is zero holds no digit but 0 before its
\* exponent, and is neither NaN nor an Infinity.
falsy(v) ==
    CASE v.t = "null" -> TRUE
      [] v.t = "bool" -> v.s = <<"f","a","l","s","e">>
      [] v.t = "num"  ->
             /\ \A i \in 1..Len(v.s) : v.s[i] \notin {"N", "I"}
             /\ \A i \in 1..Len(v.s) :
                    (\A j \in 1..i-1 : v.s[j] \notin {"e", "E"})
                        => v.s[i] \notin {"1","2","3","4","5","6","7","8","9"}
      [] v.t = "str"  -> v.s = <<>>
      [] v.t = "list" -> v.a = <<>>
      [] v.t = "dict" -> v.k = <<>>

\* A value Python cannot hash, and so cannot use as the key of a dict.
unhashable(v) == v.t \in {"list", "dict"}

\* What a parser raises; what it returns is the decoding of json_loads.
ParseRaise(e) == [exc |-> e, val |-> JNull]

\* A decoding d whose JSONDecodeError is caught and raised again as an
\* HTTPException: that of parse_azure_response, and that of the text found
\* in the response field of the old ollama format.
decoded_or_http(d) == IF d.exc = "none" THEN d ELSE ParseRaise("HTTPException")

\* parse_azure_response(response)
parse_azure_response(response) == decoded_or_http(json_loads(response))

\* re.sub(r'^```json\s*', '', s): the opening fence and the whitespace after it.
strip_fence_json(s) ==
    IF MatchAt(s, 1, FENCE_JSON) THEN From(s, SkipSpace(s, Len(FENCE_JSON) + 1)) ELSE s

\* The cleaning of the reply: strip(), then the two fence substitutions,
\* made only for a text that starts with "```".
clean_json(response) ==
    IF MatchAt(strip(response), 1, FENCE)
    THEN strip_fence_close(strip_fence_json(strip(response)))
    ELSE strip(response)

\* s.rfind(c) + 1: the index, counted from 1, of the last c of s, 0 when
\* s holds none.
rfind_end(s, c) ==
    IF InSeq(c, s)
    THEN CHOOSE j \in 1..Len(s) : s[j] = c /\ \A m \in j+1..Len(s) : s[m] # c
    ELSE 0

\* response_text[json_start:json_end] decoded, for json_start the index of
\* the first "{" and json_end the index after the last "}".
ollama_embedded(response_text) ==
    IF ~InSeq("{", response_text)
    THEN ParseRaise("HTTPException")
    ELSE decoded_or_http(json_loads(SubSeq(response_text,
                                            find(response_text, <<"{">>),
                                            rfind_end(response_text, "}"))))

\* The old format with a response field, for the value response_data that
\* the second json.loads returned.
ollama_wrapper(response_data) ==
    CASE response_data.t \in {"null", "bool", "num"} -> ParseRaise("TypeError")
      [] response_data.t = "str" ->
             IF contains(response_data.s, KEY_RESPONSE)
             THEN ParseRaise("TypeError") ELSE ParseRaise("HTTPException")
      [] response_data.t = "list" ->
             IF \E i \in 1..Len(response_data.a) : response_data.a[i] = JStr(KEY_RESPONSE)
             THEN ParseRaise("TypeError") ELSE ParseRaise("HTTPException")
      [] response_data.t = "dict" ->
             IF ~dict_has(response_data, KEY_RESPONSE) THEN ParseRaise("HTTPException")
             ELSE IF dict_get(response_data, KEY_RESPONSE).t # "str"
                  THEN ParseRaise("AttributeError")
                  ELSE ollama_embedded(dict_get(response_data, KEY_RESPONSE).s)

\* The handler of the JSONDecodeError of the first json.loads: it decodes the
\* same text once more, as d; the JSONDecodeError it raises is caught by the
\* outer except and becomes an HTTPException.
ollama_retry(d) ==
    IF d.exc # "none" THEN ParseRaise("HTTPException") ELSE ollama_wrapper(d.val)

\* The first json.loads gave d for the cleaned text.
ollama_decoded(cleaned_response, d) ==
    IF d.exc = "none" THEN d ELSE ollama_retry(json_loads(cleaned_response))

\* parse_ollama_response(response)
parse_ollama_response(response) ==
    ollama_decoded(clean_json(response), json_loads(clean_json(response)))

\* Mutant of cluster_store: the flag a layer has is kept.
cluster_store_kept(state, layer, flag) ==
    IF \E p \in state : p[1] = layer THEN state ELSE state \cup {<<layer, flag>>}

\* Mutant of cluster_store: the entries of the other layers are lost.
cluster_store_alone(state, layer, flag) == {<<layer, flag>>}

\* Mutant of cluster_store: setting the flag of a clustered layer again
\* clears it.
cluster_store_toggled(state, layer, flag) ==
    {p \in state : p[1] # layer} \cup {<<layer, flag /\ <<layer, TRUE>> \notin state>>}

\* CLUSTER_STATE[layer] = flag, for CLUSTER_STATE kept as a set of pairs
\* of a layer and its flag.
cluster_store(state, layer, flag) == {p \in state : p[1] # layer} \cup {<<layer, flag>>}

\* What handle_cluster_action returns: the command, or the exception
\* raised, and CLUSTER_STATE as it leaves it.
Clustered(e, v, state) == [exc |-> e, val |-> v, state |-> state]

\* Mutant of cluster_apply: every action is taken for ADD.
cluster_apply_any_add(action_json, layer, cluster_action, state) ==
    IF unhashable(layer)
    THEN Clustered("TypeError", action_json, state)
    ELSE Clustered("none", action_json, cluster_store(state, layer, TRUE))

\* Mutant of cluster_apply: REMOVE attaches nothing to the command.
cluster_apply_unrestored(action_json, layer, cluster_action, state) ==
    IF unhashable(layer)
    THEN Clustered("TypeError", action_json, state)
    ELSE IF cluster_action = JStr(VALUE_ADD)
    THEN Clustered("none", action_json, cluster_store(state, layer, TRUE))
    ELSE IF cluster_action = JStr(VALUE_REMOVE)
    THEN Clustered("none", action_json, cluster_store(state, layer, FALSE))
    ELSE Clustered("none", action_json, state)

\* The two branches of handle_cluster_action on cluster_action.
cluster_apply(action_json, layer, cluster_action, state) ==
    IF cluster_action = JStr(VALUE_ADD)
    THEN IF unhashable(layer)
         THEN Clustered("TypeError", action_json, state)
         ELSE Clustered("none", action_json, cluster_store(state, layer, TRUE))
    ELSE IF cluster_action = JStr(VALUE_REMOVE)
    THEN IF unhashable(layer)
         THEN Clustered("TypeError", action_json, state)
         ELSE Clustered("none",
                        dict_set(action_json, KEY_RESTORE_ORIGINAL,
                                 JDict(<<KEY_LAYER, KEY_ACTION>>, <<layer, JStr(VALUE_ADD)>>)),
                        cluster_store(state, layer, FALSE))
    ELSE Clustered("none", action_json, state)

\* action_json.get("parameters", {}) gave parameters: its layer and action
\* are read with get, which a value that is no dict does not have.
cluster_parameters(action_json, parameters, state) ==
    IF parameters.t # "dict"
    THEN Clustered("AttributeError", action_json, state)
    ELSE cluster_apply(action_json, py_get(parameters, KEY_LAYER, JNull),
                       py_get(parameters, KEY_ACTION, JNull), state)

\* handle_cluster_action(action_json), with CLUSTER_STATE = state.
handle_cluster_action(action_json, state) ==
    IF action_json.t # "dict"
    THEN Clustered("AttributeError", action_json, state)
    ELSE IF py_get(action_json, KEY_INTENT, JNull) # JStr(VALUE_CLUSTER)
    THEN Clustered("none", action_json, state)
    ELSE cluster_parameters(action_json,
                            py_get(action_json, KEY_PARAMETERS, JDict(<<>>, <<>>)), state)

\* What handle_map_action returns: the type and the command of the
\* response, or the exception raised, and CLUSTER_STATE as it leaves it.
MapFailed(e, state) == [exc |-> e, type |-> JNull, action |-> JNull, state |-> state]

\* The return of handle_map_action, for what handle_cluster_action returned.
map_clustered(done) ==
    IF done.exc # "none"
    THEN MapFailed(done.exc, done.state)
    ELSE [exc |-> "none",
          type |-> py_get(done.val, KEY_TYPE, JStr(VALUE_ACTION)),
          action |-> done.val,
          state |-> done.state]

\* handle_map_action after the parser: an exception of the parser leaves as
\* an HTTPException, and so does a value that is false.
map_parsed(parsed, state) ==
    IF parsed.exc # "none" THEN MapFailed("HTTPException", state)
    ELSE IF falsy(parsed.val) THEN MapFailed("HTTPException", state)
    ELSE map_clustered(handle_cluster_action(parsed.val, state))

\* The parser of the provider.
parse_response(provider, response) ==
    IF provider = "azure" THEN parse_azure_response(response)
    ELSE parse_ollama_response(response)

\* handle_map_action for one reply of the generator.
handle_map_action(reply, provider, state) ==
    IF reply.kind = "raise" THEN MapFailed(reply.exc, state)
    ELSE IF reply.text = <<>> THEN MapFailed("HTTPException", state)
    ELSE map_parsed(parse_response(provider, reply.text), state)

\* The detail of the HTTPException that handle_map_action raises for a
\* response it does not normalise: the response is empty, the parser of the
\* provider fails, or the value decoded is false. str(e) of a
\* json.JSONDecodeError is a fixed message of the decoder and the numbers of
\* a position; it holds no part of the document, and is kept as one element
\* of the text.
map_detail(response, provider) ==
    IF response = <<>>
    THEN \* "Failed to get response from LLM"
         <<"F","a","i","l","e","d"," ","t","o"," ","g","e","t"," ","r","e","s","p","o","n","s","e"," ","f","r","o","m"," ","L","L","M">>
    ELSE IF parse_response(provider, response).exc = "none"
    THEN \* "Failed to parse response in any format"
         <<"F","a","i","l","e","d"," ","t","o"," ","p","a","r","s","e"," ","r","e","s","p","o","n","s","e"," ","i","n"," ","a","n","y"," ","f","o","r","m","a","t">>
    ELSE IF provider = "azure"
    THEN \* "Failed to parse Azure OpenAI response as JSON"
         <<"F","a","i","l","e","d"," ","t","o"," ","p","a","r","s","e"," ","A","z","u","r","e"," ","O","p","e","n","A","I"," ","r","e","s","p","o","n","s","e"," ","a","s"," ","J","S","O","N">>
    ELSE \* f"Failed to parse Ollama response: {str(e)}"
         <<"F","a","i","l","e","d"," ","t","o"," ","p","a","r","s","e"," ","O","l","l","a","m","a"," ","r","e","s","p","o","n","s","e",":"," ">>
             \o <<"<str(JSONDecodeError)>">>

\* json.dumps(content, allow_nan=False) of JSONResponse accepts v: no number
\* in it is NaN or an infinity.
RECURSIVE json_compliant(_)
json_compliant(v) ==
    CASE v.t = "num" -> \A i \in 1..Len(v.s) : v.s[i] \notin {"N", "I"}
      [] v.t \in {"list", "dict"} -> \A i \in 1..Len(v.a) : json_compliant(v.a[i])
      [] OTHER -> TRUE

\* ------------------------------------------------------------------ generator replies

\* The longest text of the exhaustive part of the replies.
MaxRawLen == 2

\* Every text of at most MaxRawLen characters over a letter of each case,
\* the two whitespace characters, both quotes, JSON and SQL punctuation, a
\* digit and the backquote.
RawTexts ==
    UNION {[1..n -> {"a", "H", " ", "\n", "'", "\"", "{", "}", "[", "5", ";", TICK}] :
           n \in 0..MaxRawLen}

\* filter
W_filter ==
    <<"f","i","l","t","e","r">>

\* it's a question, 
P_its ==
    <<"i","t","'","s"," ","a"," ","q","u","e","s","t","i","o","n",","," ">>

Q1(w) == <<"'">> \o w \o <<"'">>

Q2(w) == <<"\"">> \o w \o <<"\"">>

\* The words a generator answers the intent prompt with.
Words ==
    {INTENT_ACTION, INTENT_FILTER, INTENT_HELP, W_filter,
     \* Help, banana, ZOOM
     <<"H","e","l","p">>, <<"b","a","n","a","n","a">>, <<"Z","O","O","M">>}

\* The ways a generator words a one-word answer: bare, with punctuation or
\* whitespace, quoted, as a JSON list, followed by " because it asks for
\* data", preceded by "The answer is " or by "I think " and quoted.
WordTexts ==
    UNION {{w, w \o <<".">>, <<" ">> \o w \o <<"\n">>, Q2(w), Q1(w),
            <<"[">> \o Q2(w) \o <<"]">>,
            w \o
              <<" ","b","e","c","a","u","s","e"," ","i","t"," ","a","s","k","s"," ","f",
                "o","r"," ","d","a","t","a">>,
            <<"T","h","e"," ","a","n","s","w","e","r"," ","i","s"," ">> \o w,
            <<"I"," ","t","h","i","n","k"," ">> \o Q1(w)} : w \in Words}

\* The verbose answers "<prose>then the output would be 'W'", with the phrase
\* in either letter case and the word quoted, double-quoted or bare; the
\* prose is empty, "so ", "Not 'ZOOM', ", "If 'FILTER' fails " or P_its.
PhraseTexts ==
    UNION {{prose \o phrase \o <<" ">> \o Q1(w),
            prose \o phrase \o <<" ">> \o Q2(w),
            prose \o phrase \o <<" ">> \o w} :
           prose \in {<<>>, <<"s","o"," ">>,
                      <<"N","o","t"," ","'","Z","O","O","M","'",","," ">>,
                      <<"I","f"," ","'","F","I","L","T","E","R","'"," ","f","a","i","l","s"," ">>,
                      P_its},
           phrase \in {OUTPUT_PHRASE,
                       <<"T","h","e","n"," ","T","h","e"," ","O","u","t","p","u","t"," ",
                         "W","o","u","l","d"," ","B","e">>},
           w \in Words}

\* {"key": value}
Wrapped(key, value) == <<"{">> \o Q2(key) \o <<":"," ">> \o value \o <<"}">>

\* The answers of a backend that wraps its text in a JSON object: under
\* "response" or under "answer", and a response that is 5, null or ["HELP"].
WrappedTexts ==
    UNION {{Wrapped(KEY_RESPONSE, Q2(x)), Wrapped(<<"a","n","s","w","e","r">>, Q2(x))} :
           x \in {w \in WordTexts \cup PhraseTexts : ~InSeq("\"", w)}}
    \cup {Wrapped(KEY_RESPONSE, <<"5">>),
          Wrapped(KEY_RESPONSE, <<"n","u","l","l">>),
          Wrapped(KEY_RESPONSE, <<"[">> \o Q2(INTENT_HELP) \o <<"]">>)}

\* The texts the generator may answer the intent prompt with.
IntentTexts == RawTexts \cup WordTexts \cup PhraseTexts \cup WrappedTexts

\* What the backend of the generator does with a request: it is not
\* reached, it answers with a status that is no success, or it answers with
\* success and a payload that is malformed (ollama: a body that is no JSON;
\* azure: no choice), that has no text (ollama: no response field; azure: a
\* message whose content is null) or that holds one of the texts.
BackendOutcomes(texts) ==
    {[status |-> "unreachable", payload |-> "none", text |-> <<>>],
     [status |-> "error", payload |-> "none", text |-> <<>>],
     [status |-> "ok", payload |-> "malformed", text |-> <<>>],
     [status |-> "ok", payload |-> "no text", text |-> <<>>]} \cup
    {[status |-> "ok", payload |-> "text", text |-> x] : x \in texts}

\* _generate_ollama_response: the exception of requests.post is not caught,
\* a status that is not 200 raises HTTPException, and response.json() and
\* the subscript ["response"] raise what they raise.
generate_ollama_response(outcome) ==
    CASE outcome.status = "unreachable" -> GenRaise("ConnectionError")
      [] outcome.status = "error" -> GenRaise("HTTPException")
      [] outcome.payload = "malformed" -> GenRaise("JSONDecodeError")
      [] outcome.payload = "no text" -> GenRaise("KeyError")
      [] OTHER -> GenText(outcome.text)

\* _generate_azure_response: every exception, the IndexError of
\* response.choices[0] included, is raised again as an HTTPException; the
\* content of the message is returned as it is, None included: the reply
\* None has no characters, and is false as the empty text is.
generate_azure_response(outcome) ==
    CASE outcome.status \in {"unreachable", "error"} -> GenRaise("HTTPException")
      [] outcome.payload = "malformed" -> GenRaise("HTTPException")
      [] outcome.payload = "no text" -> [kind |-> "null", text |-> <<>>, exc |-> "none"]
      [] OTHER -> GenText(outcome.text)

\* LLMService.generate_response, for what the backend does.
generate_response(provider, outcome) ==
    IF provider = "ollama" THEN generate_ollama_response(outcome)
    ELSE generate_azure_response(outcome)


\* SELECT id FROM layers.parks
S_select_id ==
    <<"S","E","L","E","C","T"," ","i","d"," ","F","R","O","M"," ","l","a","y","e","r",
      "s",".","p","a","r","k","s">>

\* -- primary_layer: parks
C_parks ==
    <<"-","-"," ","p","r","i","m","a","r","y","_","l","a","y","e","r",":"," ","p","a",
      "r","k","s">>

\* The statements a generator answers the SQL prompt with: with and without
\* an id column, in either letter case of the keyword; each with and
\* without its semicolon.
Terminated ==
    UNION {{st \o <<";">>, st} : st \in
        {
         S_select_id,
         \* SELECT name FROM layers.parks
         <<"S","E","L","E","C","T"," ","n","a","m","e"," ","F","R","O","M"," ","l","a",
           "y","e","r","s",".","p","a","r","k","s">>,
         \* select name from layers.parks
         <<"s","e","l","e","c","t"," ","n","a","m","e"," ","f","r","o","m"," ","l","a",
           "y","e","r","s",".","p","a","r","k","s">>,
         \* SELECT width FROM layers.cycle_paths
         <<"S","E","L","E","C","T"," ","w","i","d","t","h"," ","F","R","O","M"," ","l",
           "a","y","e","r","s",".","c","y","c","l","e","_","p","a","t","h","s">>,
         \* SELECT f.ID FROM layers.fountains AS f
         <<"S","E","L","E","C","T"," ","f",".","I","D"," ","F","R","O","M"," ","l","a",
           "y","e","r","s",".","f","o","u","n","t","a","i","n","s"," ","A","S"," ","f">>
        }}

\* The primary_layer comment, of parks or of Cycle_paths2, on a line before
\* the statement, on a line after it, on both with that of parks last, or
\* absent.
Commented ==
    UNION {{st, c \o <<"\n">> \o st, st \o <<"\n">> \o c,
            c \o <<"\n">> \o st \o <<"\n">> \o C_parks} :
           st \in Terminated,
           c \in {C_parks, PRIMARY_LAYER_COMMENT \o <<"C","y","c","l","e","_","p","a","t","h","s","2">>}}

\* The text bare, padded with whitespace, in a sql fence or in a bare fence.
SqlTexts ==
    RawTexts \cup
    UNION {{x, <<" ">> \o x \o <<"\n">>,
            FENCE_SQL \o <<"\n">> \o x \o <<"\n">> \o FENCE,
            FENCE_SQL \o <<" ">> \o x \o <<" ">> \o FENCE,
            FENCE \o <<"\n">> \o x \o <<"\n">> \o FENCE} : x \in Commented}


\* The 12 action types the action prompt lists.
ACTION_KINDS ==
    {<<"Z","O","O","M","_","I","N">>,
     <<"Z","O","O","M","_","O","U","T">>,
     <<"S","E","T","_","Z","O","O","M">>,
     <<"P","A","N">>,
     <<"F","L","Y","_","T","O">>,
     <<"J","U","M","P","_","T","O">>,
     <<"R","O","T","A","T","E">>,
     <<"P","I","T","C","H">>,
     <<"R","E","S","E","T","_","V","I","E","W">>,
     <<"H","E","A","T","_","M","A","P">>,
     <<"C","L","U","S","T","E","R">>,
     <<"C","H","A","N","G","E","_","S","Y","M","B","O","L","O","G","Y">>}

\* The commands, and the other answers, a generator gives the action prompt.
Commands ==
    {
     \* {"intent": "ZOOM_IN", "parameters": {"levels": 2}}
     <<"{","\"","i","n","t","e","n","t","\"",":"," ","\"","Z","O","O","M","_","I","N",
       "\"",","," ","\"","p","a","r","a","m","e","t","e","r","s","\"",":"," ","{","\"",
       "l","e","v","e","l","s","\"",":"," ","2","}","}">>,
     \* {"type": "style", "intent": "HEAT_MAP", "parameters": {"layer": "parks"}}
     <<"{","\"","t","y","p","e","\"",":"," ","\"","s","t","y","l","e","\"",","," ","\"",
       "i","n","t","e","n","t","\"",":"," ","\"","H","E","A","T","_","M","A","P","\"",
       ","," ","\"","p","a","r","a","m","e","t","e","r","s","\"",":"," ","{","\"","l",
       "a","y","e","r","\"",":"," ","\"","p","a","r","k","s","\"","}","}">>,
     \* {"intent": "CLUSTER", "parameters": {"layer": "parks", "action": "ADD"}}
     <<"{","\"","i","n","t","e","n","t","\"",":"," ","\"","C","L","U","S","T","E","R",
       "\"",","," ","\"","p","a","r","a","m","e","t","e","r","s","\"",":"," ","{","\"",
       "l","a","y","e","r","\"",":"," ","\"","p","a","r","k","s","\"",","," ","\"","a",
       "c","t","i","o","n","\"",":"," ","\"","A","D","D","\"","}","}">>,
     \* {"intent": "CLUSTER", "parameters": {"layer": "parks", "action": "REMOVE"}}
     <<"{","\"","i","n","t","e","n","t","\"",":"," ","\"","C","L","U","S","T","E","R",
       "\"",","," ","\"","p","a","r","a","m","e","t","e","r","s","\"",":"," ","{","\"",
       "l","a","y","e","r","\"",":"," ","\"","p","a","r","k","s","\"",","," ","\"","a",
       "c","t","i","o","n","\"",":"," ","\"","R","E","M","O","V","E","\"","}","}">>,
     \* {"intent": "CLUSTER", "parameters": {"layer": "parks", "action": "TOGGLE"}}
     <<"{","\"","i","n","t","e","n","t","\"",":"," ","\"","C","L","U","S","T","E","R",
       "\"",","," ","\"","p","a","r","a","m","e","t","e","r","s","\"",":"," ","{","\"",
       "l","a","y","e","r","\"",":"," ","\"","p","a","r","k","s","\"",","," ","\"","a",
       "c","t","i","o","n","\"",":"," ","\"","T","O","G","G","L","E","\"","}","}">>,
     \* {"intent": "CLUSTER", "parameters": {"action": "ADD"}}
     <<"{","\"","i","n","t","e","n","t","\"",":"," ","\"","C","L","U","S","T","E","R",
       "\"",","," ","\"","p","a","r","a","m","e","t","e","r","s","\"",":"," ","{","\"",
       "a","c","t","i","o","n","\"",":"," ","\"","A","D","D","\"","}","}">>,
     \* {"intent": "CLUSTER", "parameters": {"action": "REMOVE"}}
     <<"{","\"","i","n","t","e","n","t","\"",":"," ","\"","C","L","U","S","T","E","R",
       "\"",","," ","\"","p","a","r","a","m","e","t","e","r","s","\"",":"," ","{","\"",
       "a","c","t","i","o","n","\"",":"," ","\"","R","E","M","O","V","E","\"","}","}">>,
     \* {"intent": "CLUSTER"}
     <<"{","\"","i","n","t","e","n","t","\"",":"," ","\"","C","L","U","S","T","E","R",
       "\"","}">>,
     \* {"intent": "CLUSTER", "parameters": null}
     <<"{","\"","i","n","t","e","n","t","\"",":"," ","\"","C","L","U","S","T","E","R",
       "\"",","," ","\"","p","a","r","a","m","e","t","e","r","s","\"",":"," ","n","u",
       "l","l","}">>,
     \* {"intent": "CLUSTER", "parameters": {"layer": ["parks"], "action": "ADD"}}
     <<"{","\"","i","n","t","e","n","t","\"",":"," ","\"","C","L","U","S","T","E","R",
       "\"",","," ","\"","p","a","r","a","m","e","t","e","r","s","\"",":"," ","{","\"",
       "l","a","y","e","r","\"",":"," ","[","\"","p","a","r","k","s","\"","]",","," ",
       "\"","a","c","t","i","o","n","\"",":"," ","\"","A","D","D","\"","}","}">>,
     \* {"intent": "CLUSTER", "restore_original": 5, "parameters": {"layer": "parks", "action": "REMOVE"}}
     <<"{","\"","i","n","t","e","n","t","\"",":"," ","\"","C","L","U","S","T","E","R",
       "\"",","," ","\"","r","e","s","t","o","r","e","_","o","r","i","g","i","n","a",
       "l","\"",":"," ","5",","," ","\"","p","a","r","a","m","e","t","e","r","s","\"",
       ":"," ","{","\"","l","a","y","e","r","\"",":"," ","\"","p","a","r","k","s","\"",
       ","," ","\"","a","c","t","i","o","n","\"",":"," ","\"","R","E","M","O","V","E",
       "\"","}","}">>,
     \* {"intent": "ZOOM_OUT", "restore_original": {}}
     <<"{","\"","i","n","t","e","n","t","\"",":"," ","\"","Z","O","O","M","_","O","U",
       "T","\"",","," ","\"","r","e","s","t","o","r","e","_","o","r","i","g","i","n",
       "a","l","\"",":"," ","{","}","}">>,
     \* {"response": "Sure: {\"intent\": \"ZOOM_IN\"} is the command"}
     <<"{","\"","r","e","s","p","o","n","s","e","\"",":"," ","\"","S","u","r","e",":",
       " ","{","\\","\"","i","n","t","e","n","t","\\","\"",":"," ","\\","\"","Z","O",
       "O","M","_","I","N","\\","\"","}"," ","i","s"," ","t","h","e"," ","c","o","m",
       "m","a","n","d","\"","}">>,
     \* [{"intent": "PAN"}]
     <<"[","{","\"","i","n","t","e","n","t","\"",":"," ","\"","P","A","N","\"","}",
       "]">>,
     \* "ZOOM_IN"
     <<"\"","Z","O","O","M","_","I","N","\"">>,
     \* null
     <<"n","u","l","l">>,
     \* 0.0
     <<"0",".","0">>,
     \* true
     <<"t","r","u","e">>,
     \* {"intent": "SET_ZOOM", "parameters": {"level": NaN}}
     <<"{","\"","i","n","t","e","n","t","\"",":"," ","\"","S","E","T","_","Z","O","O",
       "M","\"",","," ","\"","p","a","r","a","m","e","t","e","r","s","\"",":"," ","{",
       "\"","l","e","v","e","l","\"",":"," ","N","a","N","}","}">>,
     \* {"intent": "DANCE", "parameters": {}}
     <<"{","\"","i","n","t","e","n","t","\"",":"," ","\"","D","A","N","C","E","\"",","," ","\"","p","a","r","a","m","e","t","e","r","s","\"",":"," ","{","}","}">>,
     \* I cannot do that
     <<"I"," ","c","a","n","n","o","t"," ","d","o"," ","t","h","a","t">>,
     \* Here you go: {"intent": "PAN"}
     <<"H","e","r","e"," ","y","o","u"," ","g","o",":"," ","{","\"","i","n","t","e","n",
       "t","\"",":"," ","\"","P","A","N","\"","}">>
    }

\* The text bare, padded with whitespace, in a json fence or in a bare fence.
ActionTexts ==
    RawTexts \cup
    UNION {{x, <<" ">> \o x \o <<"\n">>,
            FENCE_JSON \o <<"\n">> \o x \o <<"\n">> \o FENCE,
            FENCE_JSON \o <<" ">> \o x \o <<" ">> \o FENCE,
            FENCE \o <<"\n">> \o x \o <<"\n">> \o FENCE} : x \in Commands}


\* ------------------------------------------------------------------ the spatial store

\* The most rows a statement returns in the model.
MaxRows == 2

\* The calls of a request to the store are written as they are made:
\* "connect" for psycopg2.connect and conn.cursor(), "execute" for
\* cur.execute and the fetch of its rows, "close" for cur.close() and
\* conn.close(); a call that raises is written with "failed" after it.

\* What psycopg2 does with a statement: the store is not reached, the
\* statement raises, or fetchall returns rows: tuples of the columns the
\* statement selects. The store of the model answers rows of one and of two
\* columns whatever the statement is.
StoreOutcomes ==
    {[kind |-> "unreachable", rows |-> <<>>], [kind |-> "raise", rows |-> <<>>]} \cup
    {[kind |-> "rows", rows |-> r] :
        r \in UNION {[1..n -> {<<7>>, <<8, 7>>}] : n \in 0..MaxRows}}

\* Mutant of query_postgis: a statement the store rejects is tried again.
query_postgis_retried(sql_query, outcome) ==
    IF outcome.kind = "unreachable"
    THEN [exc |-> "OperationalError", ids |-> <<>>, calls |-> <<"connect failed">>]
    ELSE IF outcome.kind = "raise"
    THEN [exc |-> "DatabaseError", ids |-> <<>>, calls |-> <<"connect", "execute failed", "execute failed">>]
    ELSE [exc |-> "none", ids |-> [i \in 1..Len(outcome.rows) |-> outcome.rows[i][1]],
          calls |-> <<"connect", "execute", "close">>]

\* Mutant of query_postgis: the last column of a row is collected.
query_postgis_last_column(sql_query, outcome) ==
    IF outcome.kind = "unreachable"
    THEN [exc |-> "OperationalError", ids |-> <<>>, calls |-> <<"connect failed">>]
    ELSE IF outcome.kind = "raise"
    THEN [exc |-> "DatabaseError", ids |-> <<>>, calls |-> <<"connect", "execute failed">>]
    ELSE [exc |-> "none",
          ids |-> [i \in 1..Len(outcome.rows) |-> outcome.rows[i][Len(outcome.rows[i])]],
          calls |-> <<"connect", "execute", "close">>]

\* query_postgis: the statement is executed and the first column of every
\* row fetched is collected; an error of the store is not caught, and the
\* lines that close the cursor and the connection come after the fetch.
query_postgis(sql_query, outcome) ==
    IF outcome.kind = "unreachable"
    THEN [exc |-> "OperationalError", ids |-> <<>>, calls |-> <<"connect failed">>]
    ELSE IF outcome.kind = "raise"
    THEN [exc |-> "DatabaseError", ids |-> <<>>, calls |-> <<"connect", "execute failed">>]
    ELSE [exc |-> "none", ids |-> [i \in 1..Len(outcome.rows) |-> outcome.rows[i][1]],
          calls |-> <<"connect", "execute", "close">>]

\* ------------------------------------------------------------------ get_sql_prompt

\* The text holds the word w between two word boundaries (\b).
WordAt(s, i, w) ==
    /\ MatchAt(s, i, w)
    /\ ~IsWordChar(CharAt(s, i - 1))
    /\ ~IsWordChar(CharAt(s, i + Len(w)))

\* re.search(r'\b(?:w|ws)\b', s)
mentions(s, w) ==
    \E i \in 1..Len(s) : WordAt(s, i, w) \/ WordAt(s, i, Append(w, "s"))

\* re.search(r'\b(?:first\s*w|first\s*ws)\b', s)
mentions_pair(s, first, w) ==
    \E i \in 1..Len(s) :
        /\ MatchAt(s, i, first)
        /\ ~IsWordChar(CharAt(s, i - 1))
        /\ \/ MatchAt(s, SkipSpace(s, i + Len(first)), w)
              /\ ~IsWordChar(CharAt(s, SkipSpace(s, i + Len(first)) + Len(w)))
           \/ MatchAt(s, SkipSpace(s, i + Len(first)), Append(w, "s"))
              /\ ~IsWordChar(CharAt(s, SkipSpace(s, i + Len(first)) + Len(w) + 1))

\* The tables of table_patterns whose pattern the lowered query matches, in
\* the order of the dict: parks, fountains, cycle_paths.
mentioned_tables(q) ==
    (IF mentions(q, <<"p","a","r","k">>) THEN <<<<"p","a","r","k","s">>>> ELSE <<>>)
    \o (IF mentions(q, <<"f","o","u","n","t","a","i","n">>) THEN <<<<"f","o","u","n","t","a","i","n","s">>>> ELSE <<>>)
    \o (IF mentions_pair(q, <<"c","y","c","l","e">>, <<"p","a","t","h">>) \/ mentions_pair(q, <<"b","i","k","e">>, <<"p","a","t","h">>)
        THEN <<<<"c","y","c","l","e","_","p","a","t","h","s">>>> ELSE <<>>)

\* extract_relevant_tables(nl_query): all three tables when none is named.
extract_relevant_tables(nl_query) ==
    IF mentioned_tables(lower(nl_query)) = <<>>
    THEN <<<<"p","a","r","k","s">>, <<"f","o","u","n","t","a","i","n","s">>, <<"c","y","c","l","e","_","p","a","t","h","s">>>>
    ELSE mentioned_tables(lower(nl_query))

\* The questions of the requests.
Queries ==
    {\* Fountains near bike  paths
     <<"F","o","u","n","t","a","i","n","s"," ","n","e","a","r"," ","b","i","k","e"," "," ","p","a","t","h","s">>,
     \* parking lots
     <<"p","a","r","k","i","n","g"," ","l","o","t","s">>}

\* What the store does with the reads of get_table_schema for the tables:
\* it is not reached, the read of the table at raises, or all are answered.
SchemaOutcomes(tables) ==
    {[kind |-> "unreachable", at |-> 0], [kind |-> "ok", at |-> 0]} \cup
    {[kind |-> "raise", at |-> k] : k \in 1..Len(tables)}

\* get_table_schema(tables): one connection, one read of
\* information_schema.columns for each table, then the cursor and the
\* connection are closed; an error of the store is not caught.
get_table_schema(tables, outcome) ==
    IF outcome.kind = "unreachable"
    THEN [exc |-> "OperationalError", calls |-> <<"connect failed">>]
    ELSE IF outcome.kind = "raise"
    THEN [exc |-> "DatabaseError",
          calls |-> <<"connect">> \o [i \in 1..outcome.at - 1 |-> "execute"] \o <<"execute failed">>]
    ELSE [exc |-> "none",
          calls |-> <<"connect">> \o [i \in 1..Len(tables) |-> "execute"] \o <<"close">>]

\* ------------------------------------------------------------------ GET /query

VARIABLES
    LLM_PROVIDER,   \* the provider the service was started with
    CLUSTER_STATE,  \* the flag of each layer that was clustered: pairs <<layer, flag>>
    pc,          \* where the request stands: "idle", "routed", "dispatch", "prompt", "sql",
                 \* "done" (/query), "loaded" (/load-saved-query), "uploaded" (/upload-geojson)
    reply,       \* the last reply of llm_service.generate_response
    intent,      \* what route_by_intent returned
    logged,      \* the error route_by_intent printed, "none" when none
    raised,      \* the exception route_by_intent raised to query, "none" when none
    sql,         \* what natural_language_to_sql returned
    executed,    \* the statements of this request query_postgis gave the store
    calls,       \* the calls of this request to the generator and to the store
    backend,     \* the status and the kind of payload of the backend's last answer
    fetched,     \* the rows fetchall returned to query_postgis in this request
    file,        \* the content of the file /upload-geojson was given
    applied,     \* the concurrent requests in the order they ran handle_cluster_action
    threads,     \* the concurrent /query requests: where each stands, its reply, its response
    http         \* the response of the request

vars ==
    <<LLM_PROVIDER, CLUSTER_STATE, pc, reply, intent, logged, raised, sql, executed, calls,
      backend, fetched, file, applied, threads, http>>

NoReply == [kind |-> "none", text |-> <<>>, exc |-> "none"]

NoBackend == [status |-> "none", payload |-> "none"]

NoSql == [exc |-> "none", sql_query |-> <<>>, primary_layer |-> None]

\* A response: its status, its type and, of a FILTER response, the intent
\* and the parameters of its action; of a HELP or ACTION response, the
\* action as the object it is; of an error, the exception in its detail.
NoResponse ==
    [status |-> 0, type |-> JNull, intent |-> <<>>, ids |-> <<>>,
     sql_query |-> <<>>, primary_layer |-> None, action |-> JNull, detail |-> "none"]

\* Mutant of ServerError: the error is answered as an empty success.
ServerError_swallowed(exc) == [NoResponse EXCEPT !.status = 200]

\* The except clause of query: HTTPException(status_code=500, detail=str(e)).
ServerError(exc) == [NoResponse EXCEPT !.status = 500, !.detail = exc]

\* The static response of the HELP branch of query:
\* {"type": "action", "action": {"intent": "HELP", "parameters": {"type": "actions"}}}
HelpResponse ==
    [NoResponse EXCEPT
        !.status = 200, !.type = JStr(VALUE_ACTION), !.intent = INTENT_HELP,
        !.action = JDict(<<KEY_INTENT, KEY_PARAMETERS>>,
                         <<JStr(INTENT_HELP),
                           JDict(<<KEY_TYPE>>, <<JStr(<<"a","c","t","i","o","n","s">>)>>)>>)]

\* The response handle_data_query builds.
FilterResponse(ids, sql_query, primary_layer) ==
    [NoResponse EXCEPT !.status = 200, !.type = JStr(<<"q","u","e","r","y">>), !.intent = INTENT_FILTER,
                       !.ids = ids, !.sql_query = sql_query,
                       !.primary_layer = primary_layer]

\* JSONResponse(content=handle_map_action(nl_query)): a number that JSON
\* cannot hold makes json.dumps raise ValueError inside the try of query.
ActionResponse(type, action) ==
    IF json_compliant(action)
    THEN [NoResponse EXCEPT !.status = 200, !.type = type, !.action = action]
    ELSE ServerError("ValueError")

Init ==
    /\ LLM_PROVIDER \in {"ollama", "azure"}
    /\ CLUSTER_STATE = {}
    /\ pc = "idle"
    /\ reply = NoReply
    /\ intent = <<>>
    /\ logged = "none"
    /\ raised = "none"
    /\ sql = NoSql
    /\ executed = <<>>
    /\ calls = <<>>
    /\ backend = NoBackend
    /\ fetched = <<>>
    /\ file = <<>>
    /\ applied = <<>>
    /\ threads = <<>>
    /\ http = NoResponse

\* query, up to the return of route_by_intent: the generator answers the
\* intent prompt and the router classifies the answer.
RouteByIntent ==
    /\ pc = "idle"
    /\ \E outcome \in BackendOutcomes(IntentTexts) :
       \E r \in {generate_response(LLM_PROVIDER, outcome)} :
       \E routed \in {route_by_intent(r)} :
            /\ backend' = [status |-> outcome.status, payload |-> outcome.payload]
            /\ reply' = r
            /\ intent' = routed.intent
            /\ logged' = routed.logged
            /\ raised' = routed.raised
            /\ calls' = Append(calls, IF r.kind = "raise" THEN "generate failed" ELSE "generate")
            /\ IF routed.raised # "none"
               THEN pc' = "done" /\ http' = ServerError(routed.raised)
               ELSE pc' = "routed" /\ http' = http
    /\ UNCHANGED <<threads, applied, file, fetched, LLM_PROVIDER, CLUSTER_STATE, sql, executed>>

\* route_by_intent returns to query: its local response is gone, and query
\* holds the intent alone.
ReturnIntent ==
    /\ pc = "routed"
    /\ pc' = "dispatch"
    /\ reply' = NoReply
    /\ backend' = NoBackend
    /\ UNCHANGED <<threads, applied, file, fetched, LLM_PROVIDER, CLUSTER_STATE, intent, logged, raised, sql, executed, calls, http>>

\* The HELP branch of query.
HandleHelp ==
    /\ pc = "dispatch"
    /\ intent = INTENT_HELP
    /\ pc' = "done"
    /\ http' = HelpResponse
    /\ UNCHANGED <<threads, applied, file, fetched, LLM_PROVIDER, CLUSTER_STATE, reply, intent, logged, raised, sql, executed, calls,
                   backend>>

\* handle_data_query, up to the return of get_sql_prompt: the schema of the
\* tables the question names is read from the store; an error of the store
\* ends the request.
GetSqlPrompt ==
    /\ pc = "dispatch"
    /\ intent = INTENT_FILTER
    /\ \E nl_query \in Queries :
       \E outcome \in SchemaOutcomes(extract_relevant_tables(nl_query)) :
       \E read \in {get_table_schema(extract_relevant_tables(nl_query), outcome)} :
            /\ calls' = calls \o read.calls
            /\ IF read.exc # "none"
               THEN pc' = "done" /\ http' = ServerError(read.exc)
               ELSE pc' = "prompt" /\ http' = http
    /\ UNCHANGED <<threads, applied, file, fetched, LLM_PROVIDER, CLUSTER_STATE, reply, intent, logged, raised, sql, executed,
                   backend>>

\* handle_data_query, up to the return of natural_language_to_sql: the
\* generator answers the SQL prompt; its exception ends the request.
GenerateSql ==
    /\ pc = "prompt"
    /\ \E outcome \in BackendOutcomes(SqlTexts) :
       \E r \in {generate_response(LLM_PROVIDER, outcome)} :
       \E made \in {natural_language_to_sql(r)} :
            /\ backend' = [status |-> outcome.status, payload |-> outcome.payload]
            /\ reply' = r
            /\ sql' = made
            /\ calls' = Append(calls, IF r.kind = "raise" THEN "generate failed" ELSE "generate")
            /\ IF made.exc # "none"
               THEN pc' = "done" /\ http' = ServerError(made.exc)
               ELSE pc' = "sql" /\ http' = http
    /\ UNCHANGED <<threads, applied, file, fetched, LLM_PROVIDER, CLUSTER_STATE, intent, logged, raised, executed>>

\* handle_data_query from query_postgis on: the statement goes to the store
\* and the response is built from the ids; an error of the store ends the
\* request.
ExecuteQuery ==
    /\ pc = "sql"
    /\ \E outcome \in StoreOutcomes : \E got \in {query_postgis(sql.sql_query, outcome)} :
            /\ executed' = IF outcome.kind = "unreachable" THEN executed
                           ELSE Append(executed, sql.sql_query)
            /\ calls' = calls \o got.calls
            /\ fetched' = outcome.rows
            /\ http' = IF got.exc # "none"
                       THEN ServerError(got.exc)
                       ELSE FilterResponse(got.ids, sql.sql_query, sql.primary_layer)
    /\ pc' = "done"
    /\ UNCHANGED <<threads, applied, file, LLM_PROVIDER, CLUSTER_STATE, reply, intent, logged, raised, sql, backend>>

\* The else branch of query, handle_map_action: the generator answers the
\* action prompt, the parser of the provider decodes the answer,
\* handle_cluster_action updates CLUSTER_STATE, and the response is built
\* from the command; an exception ends the request.
HandleMapAction ==
    /\ pc = "dispatch"
    /\ intent \notin {INTENT_FILTER, INTENT_HELP}
    /\ \E outcome \in BackendOutcomes(ActionTexts) :
       \E r \in {generate_response(LLM_PROVIDER, outcome)} :
       \E made \in {handle_map_action(r, LLM_PROVIDER, CLUSTER_STATE)} :
            /\ backend' = [status |-> outcome.status, payload |-> outcome.payload]
            /\ reply' = r
            /\ calls' = Append(calls, IF r.kind = "raise" THEN "generate failed" ELSE "generate")
            /\ CLUSTER_STATE' = made.state
            /\ http' = IF made.exc # "none"
                       THEN ServerError(made.exc)
                       ELSE ActionResponse(made.type, made.action)
    /\ pc' = "done"
    /\ UNCHANGED <<threads, applied, file, fetched, LLM_PROVIDER, intent, logged, raised, sql, executed>>

\* load_saved_query: psycopg2.connect stands before the try, so its error
\* leaves the endpoint; inside the try every exception, those of
\* query_postgis included, is answered 500, and the finally closes the
\* cursor and the connection of load_saved_query.
load_saved_query(saved, outcome, got) ==
    IF outcome.kind = "unreachable"
    THEN [http |-> [NoResponse EXCEPT !.status = 500, !.detail = "OperationalError"],
          calls |-> <<"connect failed">>]
    ELSE IF outcome.kind = "raise"
    THEN [http |-> [NoResponse EXCEPT !.status = 500, !.detail = "Failed to load query"],
          calls |-> <<"connect", "execute failed", "close">>]
    ELSE IF outcome.kind = "missing"
    THEN [http |-> [NoResponse EXCEPT !.status = 404, !.detail = "Query not found"],
          calls |-> <<"connect", "execute", "close">>]
    ELSE [http |-> IF got.exc # "none"
                   THEN [NoResponse EXCEPT !.status = 500, !.detail = "Failed to load query"]
                   ELSE [NoResponse EXCEPT !.status = 200, !.ids = got.ids,
                                           !.sql_query = saved.sql_query,
                                           !.primary_layer = saved.primary_layer],
          calls |-> <<"connect", "execute">> \o got.calls \o <<"close">>]

\* The endpoint /load-saved-query/{query_id}, for the rows of
\* main.saved_queries, a statement and its primary layer. What the store
\* does: the connection of load_saved_query fails, its SELECT raises, no row
\* has the id, or the row is found and the store answers the statement of
\* the row to query_postgis.
LoadSavedQuery ==
    /\ pc = "idle"
    /\ \E saved \in {[sql_query |-> S_select_id \o <<";">>, primary_layer |-> <<"p","a","r","k","s">>],
                     [sql_query |-> wrap_subquery(S_select_id \o <<";">>), primary_layer |-> None]} :
       \E outcome \in {[kind |-> k, store |-> [kind |-> "unreachable", rows |-> <<>>]] :
                           k \in {"unreachable", "raise", "missing"}}
                       \cup {[kind |-> "found", store |-> o] : o \in StoreOutcomes} :
       \E got \in {query_postgis(saved.sql_query, outcome.store)} :
       \E loaded \in {load_saved_query(saved, outcome, got)} :
            /\ http' = loaded.http
            /\ calls' = loaded.calls
            /\ fetched' = outcome.store.rows
            /\ executed' = IF outcome.store.kind = "unreachable" THEN <<>>
                           ELSE <<saved.sql_query>>
    /\ pc' = "loaded"
    /\ UNCHANGED <<threads, applied, file, LLM_PROVIDER, CLUSTER_STATE, reply, intent, logged, raised, sql, backend>>

\* The contents of the files that are uploaded.
UploadFiles ==
    {
     \* two features: {"type": "FeatureCollection", "features": [{"geometry": {"type": "
     \* Point", "coordinates": [0, 0]}}, {"geometry": {"type": "Point", "coordinates": [
     \* 1, 1]}, "properties": {"name": "a"}}]}
     <<"{","\"","t","y","p","e","\"",":"," ","\"","F","e","a","t","u","r","e","C","o","l",
       "l","e","c","t","i","o","n","\"",","," ","\"","f","e","a","t","u","r","e","s","\"",
       ":"," ","[","{","\"","g","e","o","m","e","t","r","y","\"",":"," ","{","\"","t","y",
       "p","e","\"",":"," ","\"","P","o","i","n","t","\"",","," ","\"","c","o","o","r",
       "d","i","n","a","t","e","s","\"",":"," ","[","0",","," ","0","]","}","}",","," ",
       "{","\"","g","e","o","m","e","t","r","y","\"",":"," ","{","\"","t","y","p","e",
       "\"",":"," ","\"","P","o","i","n","t","\"",","," ","\"","c","o","o","r","d","i",
       "n","a","t","e","s","\"",":"," ","[","1",","," ","1","]","}",","," ","\"","p","r",
       "o","p","e","r","t","i","e","s","\"",":"," ","{","\"","n","a","m","e","\"",":"," ",
       "\"","a","\"","}","}","]","}">>,
     \* no feature: {"type": "FeatureCollection", "features": []}
     <<"{","\"","t","y","p","e","\"",":"," ","\"","F","e","a","t","u","r","e","C","o","l",
       "l","e","c","t","i","o","n","\"",","," ","\"","f","e","a","t","u","r","e","s","\"",
       ":"," ","[","]","}">>,
     \* a feature without geometry after one with: {"type": "FeatureCollection", "featur
     \* es": [{"geometry": {"type": "Point", "coordinates": [0, 0]}}, {}]}
     <<"{","\"","t","y","p","e","\"",":"," ","\"","F","e","a","t","u","r","e","C","o","l",
       "l","e","c","t","i","o","n","\"",","," ","\"","f","e","a","t","u","r","e","s","\"",
       ":"," ","[","{","\"","g","e","o","m","e","t","r","y","\"",":"," ","{","\"","t","y",
       "p","e","\"",":"," ","\"","P","o","i","n","t","\"",","," ","\"","c","o","o","r",
       "d","i","n","a","t","e","s","\"",":"," ","[","0",","," ","0","]","}","}",","," ",
       "{","}","]","}">>,
     \* a feature that is a number: {"type": "FeatureCollection", "features": [5]}
     <<"{","\"","t","y","p","e","\"",":"," ","\"","F","e","a","t","u","r","e","C","o","l",
       "l","e","c","t","i","o","n","\"",","," ","\"","f","e","a","t","u","r","e","s","\"",
       ":"," ","[","5","]","}">>,
     \* features that are no list: {"type": "FeatureCollection", "features": {}}
     <<"{","\"","t","y","p","e","\"",":"," ","\"","F","e","a","t","u","r","e","C","o","l",
       "l","e","c","t","i","o","n","\"",","," ","\"","f","e","a","t","u","r","e","s","\"",
       ":"," ","{","}","}">>,
     \* no features: {"type": "FeatureCollection"}
     <<"{","\"","t","y","p","e","\"",":"," ","\"","F","e","a","t","u","r","e","C","o","l",
       "l","e","c","t","i","o","n","\"","}">>,
     \* a single feature: {"type": "Feature", "features": []}
     <<"{","\"","t","y","p","e","\"",":"," ","\"","F","e","a","t","u","r","e","\"",",",
       " ","\"","f","e","a","t","u","r","e","s","\"",":"," ","[","]","}">>,
     \* a list: [{"geometry": {"type": "Point", "coordinates": [0, 0]}}]
     <<"[","{","\"","g","e","o","m","e","t","r","y","\"",":"," ","{","\"","t","y","p","e",
       "\"",":"," ","\"","P","o","i","n","t","\"",","," ","\"","c","o","o","r","d","i",
       "n","a","t","e","s","\"",":"," ","[","0",","," ","0","]","}","}","]">>,
     \* no JSON: {"type": 
     <<"{","\"","t","y","p","e","\"",":"," ">>
    }

\* The first call that raises on the features themselves, 0 when none does:
\* create_table_for_geojson (1) tests "properties" in feature and reads
\* feature["properties"].keys() of every feature before its first statement,
\* which raises on a feature that is a number, true, false or null and on
\* properties that are no object; insert_feature (1 + i) reads
\* feature["geometry"] of feature i before its statements.
data_failure(features) ==
    IF \E i \in 1..Len(features) :
           \/ features[i].t \in {"num", "bool", "null"}
           \/ /\ features[i].t = "dict"
              /\ dict_has(features[i], <<"p","r","o","p","e","r","t","i","e","s">>)
              /\ dict_get(features[i], <<"p","r","o","p","e","r","t","i","e","s">>).t # "dict"
    THEN 1
    ELSE IF \E i \in 1..Len(features) : ~dict_has(features[i], <<"g","e","o","m","e","t","r","y">>)
    THEN 1 + CHOOSE i \in 1..Len(features) :
                 /\ ~dict_has(features[i], <<"g","e","o","m","e","t","r","y">>)
                 /\ \A j \in 1..i - 1 : dict_has(features[j], <<"g","e","o","m","e","t","r","y">>)
    ELSE 0

\* The calls 1..upto of an upload of n features, all of which returned.
upload_calls(n, upto) ==
    [k \in 1..upto |-> IF k = 1 THEN "create table" ELSE IF k = n + 2 THEN "commit" ELSE "insert"]

\* Mutant of upload_to_store: a failure is not rolled back.
upload_to_store_unrolled(n, failed) ==
    IF failed = 0
    THEN [exc |-> "none", calls |-> <<"connect">> \o upload_calls(n, n + 2) \o <<"close">>]
    ELSE [exc |-> "HTTPException",
          calls |-> <<"connect">> \o upload_calls(n, failed - 1)
                    \o <<upload_calls(n, failed)[failed] \o " failed", "close">>]

\* Lines 117-142 of process_geojson_upload for n features, of which the call
\* `failed` raises (0: none): the table is created, every feature inserted
\* and the transaction committed; an exception of any of these calls is
\* answered by conn.rollback() and an HTTPException, and the finally closes
\* the cursor and the connection.
upload_to_store(n, failed) ==
    IF failed = 0
    THEN [exc |-> "none", calls |-> <<"connect">> \o upload_calls(n, n + 2) \o <<"close">>]
    ELSE [exc |-> "HTTPException",
          calls |-> <<"connect">> \o upload_calls(n, failed - 1)
                    \o <<upload_calls(n, failed)[failed] \o " failed", "rollback", "close">>]

\* process_geojson_upload: the content is decoded and validated, then
\* stored. The HTTPException(400) of each validation is raised inside the
\* outer try, whose `except Exception` raises it again as
\* HTTPException(500, detail=str(e)); so are the error of psycopg2.connect
\* and the HTTPException of the store part. The answer holds, kept in the
\* action field, the decoded document as its geojson: insert_feature has
\* given every feature without properties the properties {}.
process_geojson_upload(decoded, outcome) ==
    IF decoded.exc # "none"
    THEN [http |-> [NoResponse EXCEPT !.status = 400, !.detail = "Invalid JSON format"],
          calls |-> <<>>]
    ELSE IF \/ decoded.val.t # "dict"
            \/ py_get(decoded.val, KEY_TYPE, JNull)
                  # JStr(<<"F","e","a","t","u","r","e","C","o","l","l","e","c","t","i","o","n">>)
            \/ py_get(decoded.val, <<"f","e","a","t","u","r","e","s">>, JNull).t # "list"
    THEN [http |-> [NoResponse EXCEPT !.status = 500, !.detail = "HTTPException"], calls |-> <<>>]
    ELSE IF outcome.kind = "unreachable"
    THEN [http |-> [NoResponse EXCEPT !.status = 500, !.detail = "OperationalError"],
          calls |-> <<"connect failed">>]
    ELSE LET features == dict_get(decoded.val, <<"f","e","a","t","u","r","e","s">>).a
             \* the call that raises first: on the features or in the store
             failed == IF /\ outcome.kind = "raise"
                          /\ data_failure(features) = 0 \/ outcome.at < data_failure(features)
                       THEN outcome.at
                       ELSE data_failure(features)
             stored == upload_to_store(Len(features), failed)
             inserted == [i \in 1..Len(features) |->
                             IF dict_has(features[i], <<"p","r","o","p","e","r","t","i","e","s">>)
                             THEN features[i]
                             ELSE dict_set(features[i], <<"p","r","o","p","e","r","t","i","e","s">>,
                                           JDict(<<>>, <<>>))]
         IN  [http |-> IF stored.exc # "none"
                       THEN [NoResponse EXCEPT !.status = 500, !.detail = stored.exc]
                       ELSE [NoResponse EXCEPT
                                !.status = 200,
                                !.action = dict_set(decoded.val, <<"f","e","a","t","u","r","e","s">>,
                                                    JList(inserted))],
              calls |-> stored.calls]

\* The endpoint /upload-geojson. What the store does for an upload of n
\* features: it is not reached, every statement succeeds, or the call `at`
\* raises: 1 is the creation of the table, 1 + i the insert of feature i,
\* n + 2 the commit.
UploadGeojson ==
    /\ pc = "idle"
    /\ \E content \in UploadFiles : \E decoded \in {json_loads(content)} :
       \E n \in {Len(py_get(decoded.val, <<"f","e","a","t","u","r","e","s">>, JNull).a)} :
       \E outcome \in {[kind |-> "unreachable", at |-> 0], [kind |-> "ok", at |-> 0]}
                          \cup {[kind |-> "raise", at |-> k] : k \in 1..n + 2} :
       \E uploaded \in {process_geojson_upload(decoded, outcome)} :
            /\ file' = content
            /\ http' = uploaded.http
            /\ calls' = uploaded.calls
    /\ pc' = "uploaded"
    /\ UNCHANGED <<threads, applied, LLM_PROVIDER, CLUSTER_STATE, reply, intent, logged, raised, sql, executed,
                   fetched, backend>>

\* The next request: the locals of the last one are gone, CLUSTER_STATE
\* stays.
NewRequest ==
    /\ pc \in {"done", "loaded", "uploaded"}
    /\ pc' = "idle"
    /\ reply' = NoReply
    /\ intent' = <<>>
    /\ logged' = "none"
    /\ raised' = "none"
    /\ sql' = NoSql
    /\ executed' = <<>>
    /\ calls' = <<>>
    /\ backend' = NoBackend
    /\ fetched' = <<>>
    /\ file' = <<>>
    /\ http' = NoResponse
    /\ UNCHANGED <<threads, applied, LLM_PROVIDER, CLUSTER_STATE>>

Next ==
    \/ RouteByIntent
    \/ ReturnIntent
    \/ HandleHelp
    \/ GetSqlPrompt
    \/ GenerateSql
    \/ ExecuteQuery
    \/ HandleMapAction
    \/ LoadSavedQuery
    \/ UploadGeojson
    \/ NewRequest

Spec == Init /\ [][Next]_vars

\* ------------------------------------------------------------------ concurrent requests

\* query is a plain def, which the framework runs on a thread of its pool:
\* requests the router sent to handle_map_action run side by side. The
\* locals of a request are its own; CLUSTER_STATE is the module's. Between
\* the reply of the generator and the return, a request touches
\* CLUSTER_STATE once, by the assignment CLUSTER_STATE[layer] = flag of
\* handle_cluster_action, one store into a dict, which the interpreter makes
\* whole; so the steps of a request after the reply are one step here.

\* The most requests that run side by side.
MaxThreads == 2

\* A request is accepted and its thread starts.
AcceptQuery ==
    /\ Len(threads) < MaxThreads
    /\ threads' = Append(threads, [pc |-> "start", reply |-> NoReply, http |-> NoResponse])
    /\ UNCHANGED <<applied, file, fetched, LLM_PROVIDER, CLUSTER_STATE, pc, reply, intent, logged,
                   raised, sql, executed, calls, backend, http>>

\* The commands the generator answers these requests with: those of intent
\* CLUSTER that name an action, the only ones handle_cluster_action acts on.
ThreadTexts == {x \in Commands : contains(x, VALUE_CLUSTER) /\ contains(x, KEY_ACTION)}

\* handle_map_action of one thread, up to the reply of the generator.
ThreadGenerate ==
    /\ \E p \in 1..Len(threads) :
       \E outcome \in BackendOutcomes(ThreadTexts) :
            /\ threads[p].pc = "start"
            /\ threads' = [threads EXCEPT ![p].pc = "generated",
                                          ![p].reply = generate_response(LLM_PROVIDER, outcome)]
    /\ UNCHANGED <<applied, file, fetched, LLM_PROVIDER, CLUSTER_STATE, pc, reply, intent, logged,
                   raised, sql, executed, calls, backend, http>>

\* handle_map_action of one thread from the reply on: the parser,
\* handle_cluster_action on CLUSTER_STATE as it is now, and the response.
ThreadApply ==
    /\ \E p \in 1..Len(threads) :
       \E made \in {handle_map_action(threads[p].reply, LLM_PROVIDER, CLUSTER_STATE)} :
            /\ threads[p].pc = "generated"
            /\ CLUSTER_STATE' = made.state
            /\ applied' = Append(applied, p)
            /\ threads' = [threads EXCEPT
                              ![p].pc = "done",
                              ![p].http = IF made.exc # "none"
                                          THEN ServerError(made.exc)
                                          ELSE ActionResponse(made.type, made.action)]
    /\ UNCHANGED <<file, fetched, LLM_PROVIDER, pc, reply, intent, logged, raised, sql, executed,
                   calls, backend, http>>

NextConcurrent ==
    \/ AcceptQuery
    \/ ThreadGenerate
    \/ ThreadApply

SpecConcurrent == Init /\ [][NextConcurrent]_vars
\* ------------------------------------------------------------------ the router's claims

StartsWith(s, prefix) == MatchAt(s, 1, prefix)

EndsWith(s, suffix) == MatchAt(s, Len(s) - Len(suffix) + 1, suffix)

\* route_by_intent has run on reply: it returned, or raised to query.
RouterRan == pc = "routed" \/ raised # "none"

\* A step of the normalization raises on the text: it decodes as JSON to a
\* value that is no object, or to an object whose response field is no string.
NormalizationRaises(text) ==
    /\ json_loads(text).exc = "none"
    /\ \/ json_loads(text).val.t # "dict"
       \/ /\ dict_has(json_loads(text).val, KEY_RESPONSE)
          /\ dict_get(json_loads(text).val, KEY_RESPONSE).t # "str"

\* The text is a JSON object with a response field that is a string.
IsWrapper(text) ==
    /\ json_loads(text).exc = "none"
    /\ json_loads(text).val.t = "dict"
    /\ dict_has(json_loads(text).val, KEY_RESPONSE)
    /\ dict_get(json_loads(text).val, KEY_RESPONSE).t = "str"

\* The text the classification is computed from when nothing raises: the
\* response field of a wrapper, the text itself otherwise, stripped.
ClassificationText(text) ==
    IF IsWrapper(text)
    THEN strip(dict_get(json_loads(text).val, KEY_RESPONSE).s)
    ELSE strip(text)

\* The router classified a text of the generator and no step raised.
Classified ==
    /\ pc = "routed"
    /\ reply.kind = "text"
    /\ reply.text # <<>>
    /\ ~NormalizationRaises(reply.text)

\* A word, or ACTION when the word is none of the three intents.
OrAction(word) == IF word \in VALID_INTENTS THEN word ELSE INTENT_ACTION

\* T of the text: its first whitespace-delimited token, uppercased, with
\* every character that is no letter removed.
FirstTokenWord(text) == only_alpha(upper(first_token(text)))

\* The quoted-word special case applies: the text holds the phrase and a
\* single-quoted word in capitals.
SpecialCase(text) ==
    /\ contains(lower(text), OUTPUT_PHRASE)
    /\ search_quoted_capitals(text).found

\* C1: route_by_intent never propagates an error: when the generator raises,
\* returns empty text, or a step of the normalization raises, it returns
\* ACTION and raises nothing to query.
C1_RouterSwallowsErrors ==
    (/\ RouterRan
     /\ \/ reply.kind = "raise"
        \/ reply.text = <<>>
        \/ NormalizationRaises(reply.text))
    => (intent = INTENT_ACTION /\ raised = "none" /\ pc = "routed")

\* C1 witness: a text whose normalization raised TypeError was routed to ACTION.
C1_Witness ==
    /\ pc = "routed"
    /\ reply.kind = "text"
    /\ reply.text # <<>>
    /\ NormalizationRaises(reply.text)
    /\ logged = "TypeError"
    /\ intent = INTENT_ACTION

\* C2: for every reply of the generator (empty text, JSON, prose, a failure)
\* the value route_by_intent returns is one of ACTION, FILTER, HELP.
C2_IntentIsOneOfThree ==
    RouterRan => intent \in VALID_INTENTS

\* C2 witness: a text whose extracted word is none of the three was routed.
C2_Witness ==
    /\ Classified
    /\ only_alpha(extract_intent(ClassificationText(reply.text))) \notin VALID_INTENTS
    /\ only_alpha(extract_intent(ClassificationText(reply.text))) # <<>>
    /\ intent = INTENT_ACTION

\* C3: for a text that is used directly (it is no JSON, or a JSON object
\* without a response field) and to which the quoted-word special case does
\* not apply, route_by_intent returns T, the first token uppercased and
\* stripped of what is no letter, when T is one of the three intents and
\* ACTION otherwise, and it does not fail.
C3_FirstTokenRule ==
    (/\ Classified
     /\ ~IsWrapper(reply.text)
     /\ ~SpecialCase(strip(reply.text)))
    => /\ intent = OrAction(FirstTokenWord(strip(reply.text)))
       /\ logged = "none"
       /\ raised = "none"

\* C3 witness: a token that had to be uppercased and stripped gave FILTER.
C3_Witness ==
    /\ Classified
    /\ ~IsWrapper(reply.text)
    /\ ~SpecialCase(strip(reply.text))
    /\ first_token(strip(reply.text)) = W_filter \o <<".">>
    /\ intent = INTENT_FILTER

\* The classification text has the form <prose> then the output would be 'W'.
PhraseForm(text, w) ==
    EndsWith(text, OUTPUT_PHRASE \o <<" ", "'">> \o w \o <<"'">>)

\* The prose before the phrase of a text of that form.
ProseOf(text, w) == SubSeq(text, 1, Len(text) - Len(OUTPUT_PHRASE) - Len(w) - 3)

\* C4 as claimed: for a classification text of the form <prose> then the
\* output would be 'W', W one of the three intents and the prose arbitrary,
\* route_by_intent returns W.
C4_Original ==
    \A w \in VALID_INTENTS :
        (Classified /\ PhraseForm(ClassificationText(reply.text), w)) => intent = w

\* C4 as amended: for a classification text of the form <prose> then the
\* output would be 'W', W one of the three intents and the prose holding no
\* single-quoted word in capitals, route_by_intent returns W.
C4_QuotedWordAfterPhrase ==
    \A w \in VALID_INTENTS :
        (/\ Classified
         /\ PhraseForm(ClassificationText(reply.text), w)
         /\ ~search_quoted_capitals(ProseOf(ClassificationText(reply.text), w)).found)
        => intent = w

\* C4 witness: after a prose that is not empty the quoted HELP was returned.
C4_Witness ==
    /\ Classified
    /\ PhraseForm(ClassificationText(reply.text), INTENT_HELP)
    /\ ProseOf(ClassificationText(reply.text), INTENT_HELP) = P_its
    /\ intent = INTENT_HELP

\* C5 as claimed: whenever the classification text holds a single-quoted
\* word in capitals the classification is taken from it, and the first token
\* is used only when there is none.
C5_Original ==
    Classified =>
        intent = IF search_quoted_capitals(ClassificationText(reply.text)).found
                 THEN OrAction(search_quoted_capitals(ClassificationText(reply.text)).group)
                 ELSE OrAction(FirstTokenWord(ClassificationText(reply.text)))

\* C5 as amended: the quoted word is searched for only in a text that holds
\* the phrase "then the output would be" (in any letter case): when the text
\* holds the phrase and a single-quoted word in capitals the classification
\* is taken from the first such word, and in every other case from the
\* first token.
C5_QuotedWordOnlyWithPhrase ==
    Classified =>
        intent = IF SpecialCase(ClassificationText(reply.text))
                 THEN OrAction(search_quoted_capitals(ClassificationText(reply.text)).group)
                 ELSE OrAction(FirstTokenWord(ClassificationText(reply.text)))

\* C5 witness: the text holds the phrase, its first quoted word is FILTER and
\* its first token gives another intent; FILTER was returned.
C5_Witness ==
    /\ Classified
    /\ SpecialCase(ClassificationText(reply.text))
    /\ search_quoted_capitals(ClassificationText(reply.text)).group = INTENT_FILTER
    /\ OrAction(FirstTokenWord(ClassificationText(reply.text))) # INTENT_FILTER
    /\ intent = INTENT_FILTER

\* The classification the router computes from a classification text.
ClassifiedFrom(text) ==
    IF SpecialCase(text)
    THEN OrAction(search_quoted_capitals(text).group)
    ELSE OrAction(FirstTokenWord(text))

\* The raw text is a JSON object whose response field is no string.
WrapperFieldNotString(text) ==
    /\ json_loads(text).exc = "none"
    /\ json_loads(text).val.t = "dict"
    /\ dict_has(json_loads(text).val, KEY_RESPONSE)
    /\ dict_get(json_loads(text).val, KEY_RESPONSE).t # "str"

\* C6 as claimed: when the raw text is a JSON object with a response field
\* (a string) the classification is computed from that field, and in every
\* other case (no JSON, JSON without the field, JSON that is no object) from
\* the raw text itself.
C6_Original ==
    (/\ pc = "routed"
     /\ reply.kind = "text"
     /\ reply.text # <<>>
     /\ ~WrapperFieldNotString(reply.text))
    => intent = ClassifiedFrom(IF IsWrapper(reply.text)
                               THEN strip(dict_get(json_loads(reply.text).val, KEY_RESPONSE).s)
                               ELSE strip(reply.text))

\* ------------------------------------------------------------------ the SQL pipeline's claims

\* natural_language_to_sql has returned a statement for reply.
SqlMade == pc = "sql" \/ (pc = "done" /\ executed # <<>>)

\* The statement was made from a text of the generator that is not empty.
SqlFromText == SqlMade /\ reply.kind = "text" /\ reply.text # <<>>

\* SELECT id FROM (<inner>) AS subquery;
Enveloped(stmt) ==
    /\ StartsWith(stmt, ENVELOPE_OPEN)
    /\ EndsWith(stmt, ENVELOPE_CLOSE)
    /\ Len(stmt) >= Len(ENVELOPE_OPEN) + Len(ENVELOPE_CLOSE)

\* The inner statement of an envelope.
InnerOf(stmt) == SubSeq(stmt, Len(ENVELOPE_OPEN) + 1, Len(stmt) - Len(ENVELOPE_CLOSE))

\* C7: for every generator output that is not empty, the statement
\* natural_language_to_sql returns, and handle_data_query passes to the
\* store, starts with "SELECT id FROM (" and ends with ") AS subquery;".
C7_EnvelopeInvariant ==
    SqlFromText =>
        /\ Enveloped(sql.sql_query)
        /\ \A i \in 1..Len(executed) : executed[i] = sql.sql_query

\* C7 witness: for a text without SELECT the store was given an envelope.
C7_Witness ==
    /\ pc = "done"
    /\ Len(executed) = 1
    /\ reply.kind = "text"
    /\ reply.text # <<>>
    /\ ~contains(reply.text, KEYWORD_SELECT)
    /\ Enveloped(executed[1])

\* A statement minus its trailing semicolon, whole when it has none.
WithoutSemicolon(stmt) ==
    IF CharAt(stmt, Len(stmt)) = ";" THEN drop_last(stmt) ELSE stmt

\* C8 as claimed: the inner statement of the envelope is the generated
\* statement minus its trailing semicolon: only a final ";" is removed, and
\* of a text that does not end with ";" no character is removed.
C8_Original ==
    SqlFromText =>
        InnerOf(sql.sql_query) = WithoutSemicolon(ensure_id(clean_sql(reply.text)))

\* The text is a "-- primary_layer: L" comment line followed by "S;".
CommentThenStatement(text) ==
    /\ StartsWith(text, PRIMARY_LAYER_COMMENT)
    /\ WordEnd(text, Len(PRIMARY_LAYER_COMMENT) + 1) > Len(PRIMARY_LAYER_COMMENT) + 1
    /\ CharAt(text, WordEnd(text, Len(PRIMARY_LAYER_COMMENT) + 1)) = "\n"
    /\ Len(text) > WordEnd(text, Len(PRIMARY_LAYER_COMMENT) + 1) + 1
    /\ CharAt(text, Len(text)) = ";"

\* L, the comment line and S of such a text.
LayerOf(text) ==
    SubSeq(text, Len(PRIMARY_LAYER_COMMENT) + 1,
           WordEnd(text, Len(PRIMARY_LAYER_COMMENT) + 1) - 1)

CommentLineOf(text) == PRIMARY_LAYER_COMMENT \o LayerOf(text)

StatementOf(text) == SubSeq(text, Len(CommentLineOf(text)) + 2, Len(text) - 1)

\* The filter pipeline has executed the statement made from such a text.
ExecutedCommented ==
    /\ pc = "done"
    /\ Len(executed) = 1
    /\ reply.kind = "text"
    /\ CommentThenStatement(reply.text)

\* C9 as claimed: for a "-- primary_layer: L" comment line followed by "S;"
\* the pipeline executes exactly SELECT id FROM (S) AS subquery; and reports
\* primary_layer = L.
C9_Original ==
    ExecutedCommented =>
        /\ executed[1] = ENVELOPE_OPEN \o StatementOf(reply.text) \o ENVELOPE_CLOSE
        /\ sql.primary_layer = LayerOf(reply.text)
        /\ (http.status = 200 => http.primary_layer = LayerOf(reply.text))

\* C9 as amended: the comment line stays in the executed statement. When the
\* text holds "id" (in any letter case) the pipeline executes exactly
\* SELECT id FROM (-- primary_layer: L\nS) AS subquery; and when it does not,
\* the first "SELECT" of the text is replaced by "SELECT id, " before the
\* text, less its final semicolon, is wrapped. It reports primary_layer = L
\* and the statement it executed.
C9_CommentStaysInStatement ==
    ExecutedCommented =>
        /\ executed[1] =
             ENVELOPE_OPEN
             \o (IF contains(lower(reply.text), WORD_ID)
                 THEN CommentLineOf(reply.text) \o <<"\n">> \o StatementOf(reply.text)
                 ELSE drop_last(replace_first(reply.text, KEYWORD_SELECT, SELECT_ID)))
             \o ENVELOPE_CLOSE
        /\ sql.primary_layer = LayerOf(reply.text)
        /\ (http.status = 200 =>
                /\ http.primary_layer = LayerOf(reply.text)
                /\ http.sql_query = executed[1])

\* C9 witness: the example of the specification, answered by the store.
C9_Witness ==
    /\ ExecutedCommented
    /\ reply.text = C_parks \o <<"\n">> \o S_select_id \o <<";">>
    /\ executed[1] = ENVELOPE_OPEN \o C_parks \o <<"\n">> \o S_select_id \o ENVELOPE_CLOSE
    /\ http.status = 200
    /\ http.primary_layer = LayerOf(C_parks)

\* "id, " injected after the first SELECT keyword of a statement, whatever
\* the letter case of the keyword; the statement itself when it has none.
InjectIdAnyCase(stmt) ==
    IF find(lower(stmt), lower(KEYWORD_SELECT)) = 0 THEN stmt
    ELSE SubSeq(stmt, 1, find(lower(stmt), lower(KEYWORD_SELECT)) + Len(KEYWORD_SELECT) - 1)
         \o <<" ", "i", "d", ",", " ">>
         \o From(stmt, find(lower(stmt), lower(KEYWORD_SELECT)) + Len(KEYWORD_SELECT))

\* C10 as claimed: when "id" does not appear (in any letter case) in the
\* generated statement, the statement that gets wrapped has "id," injected
\* after its first SELECT keyword, whatever the letter case of the keyword;
\* when "id" appears the statement is wrapped unchanged.
C10_Original ==
    SqlFromText =>
        sql.sql_query =
            wrap_subquery(IF contains(lower(clean_sql(reply.text)), WORD_ID)
                          THEN clean_sql(reply.text)
                          ELSE InjectIdAnyCase(clean_sql(reply.text)))

\* ------------------------------------------------------------------ claims C11 to C20

\* A "-- primary_layer: <name>" comment opens at text[i]: the marker, then
\* at least one character of a name.
CommentAt(text, i) ==
    /\ StartsWith(From(text, i), PRIMARY_LAYER_COMMENT)
    /\ IsWordChar(CharAt(text, i + Len(PRIMARY_LAYER_COMMENT)))

\* The name of the comment that opens at text[i], as written: the letters,
\* digits and underscores up to the first other character.
NameAt(text, i) ==
    LET b == i + Len(PRIMARY_LAYER_COMMENT)
    IN  SubSeq(text, b,
               (CHOOSE e \in b..Len(text) :
                    /\ \A k \in b..e : IsWordChar(text[k])
                    /\ ~IsWordChar(CharAt(text, e + 1))))

\* The name of the first comment of the text, None when it has no comment.
FirstCommentName(text) ==
    IF \E i \in 1..Len(text) : CommentAt(text, i)
    THEN NameAt(text, CHOOSE i \in 1..Len(text) :
                          CommentAt(text, i) /\ \A j \in 1..i-1 : ~CommentAt(text, j))
    ELSE None

\* natural_language_to_sql has returned for a text of the generator.
SqlReturned == (pc = "sql" \/ (pc = "done" /\ executed # <<>>)) /\ reply.kind = "text"

\* C11: natural_language_to_sql returns primary_layer = None when the
\* generated text has no "-- primary_layer: <name>" comment, and otherwise
\* the name of the first such comment exactly as written, its letter case
\* kept.
C11_PrimaryLayerAsWritten ==
    SqlReturned => sql.primary_layer = FirstCommentName(reply.text)

\* C11 witness: of two comments the first names Cycle_paths2, and that name
\* was returned with its capital letter.
C11_Witness ==
    /\ SqlReturned
    /\ \E i, j \in 1..Len(reply.text) :
           /\ i < j
           /\ CommentAt(reply.text, i)
           /\ CommentAt(reply.text, j)
           /\ NameAt(reply.text, i) # NameAt(reply.text, j)
    /\ sql.primary_layer = <<"C","y","c","l","e","_","p","a","t","h","s","2">>

\* The filter pipeline has ended for an empty text of the generator.
FilterEndedOnEmpty ==
    /\ pc = "done"
    /\ intent = INTENT_FILTER
    /\ reply.kind = "text"
    /\ reply.text = <<>>

\* C12 as claimed: when the generator returns no SQL text the filter
\* pipeline fails with an error and nothing is executed against the store.
C12_Original ==
    FilterEndedOnEmpty => (executed = <<>> /\ http.status = 500)

\* The text is "```sql X ```": the sql fence, a space or a newline, a text X
\* that is not empty and holds no backquote, a space or a newline, the fence.
SqlFenced(text) ==
    /\ StartsWith(text, FENCE_SQL)
    /\ EndsWith(text, FENCE)
    /\ Len(text) > Len(FENCE_SQL) + Len(FENCE) + 2
    /\ IsSpace(text[Len(FENCE_SQL) + 1])
    /\ IsSpace(text[Len(text) - Len(FENCE)])
    /\ \A i \in Len(FENCE_SQL) + 2 .. Len(text) - Len(FENCE) - 1 : text[i] # TICK

\* X, the text between the fences.
Unfenced(text) == SubSeq(text, Len(FENCE_SQL) + 2, Len(text) - Len(FENCE) - 1)

\* C13: for a statement text X, the executed statement and the primary_layer
\* made from the generator output "```sql X ```" are those made from the
\* unfenced output X.
C13_SqlFenceEquivalence ==
    (SqlReturned /\ SqlFenced(reply.text)) =>
        /\ sql = natural_language_to_sql(GenText(Unfenced(reply.text)))
        /\ \A i \in 1..Len(executed) :
               executed[i] = natural_language_to_sql(GenText(Unfenced(reply.text))).sql_query

\* C13 witness: the fenced example of the specification was executed as the
\* unfenced one is, and its layer reported.
C13_Witness ==
    /\ pc = "done"
    /\ SqlFenced(reply.text)
    /\ Unfenced(reply.text) = C_parks \o <<"\n">> \o S_select_id \o <<";">>
    /\ executed = <<ENVELOPE_OPEN \o C_parks \o <<"\n">> \o S_select_id \o ENVELOPE_CLOSE>>
    /\ http.status = 200
    /\ http.primary_layer = <<"p","a","r","k","s">>

\* handle_map_action has ended the request for a text of the generator.
ActionEnded == pc = "done" /\ intent = INTENT_ACTION /\ reply.kind = "text"

\* The text is a fenced one: open, a space or a newline, a text J that is
\* not empty, a space or a newline, "```".
FencedBy(text, open) ==
    /\ StartsWith(text, open)
    /\ EndsWith(text, FENCE)
    /\ Len(text) > Len(open) + Len(FENCE) + 2
    /\ IsSpace(text[Len(open) + 1])
    /\ IsSpace(text[Len(text) - Len(FENCE)])

\* J, the text between the fences.
Inside(text, open) == SubSeq(text, Len(open) + 2, Len(text) - Len(FENCE) - 1)

\* The text is that of a JSON object.
IsObjectText(text) == json_loads(text).exc = "none" /\ json_loads(text).val.t = "dict"

\* The response of the request for what handle_map_action returned.
ResponseOf(made) ==
    IF made.exc # "none" THEN ServerError(made.exc) ELSE ActionResponse(made.type, made.action)

\* The normalizer gives for the fenced text what it gives for J, and the
\* request is answered as it is for J.
SameAsUnfenced(open) ==
    (FencedBy(reply.text, open) /\ IsObjectText(Inside(reply.text, open))) =>
        /\ parse_response(LLM_PROVIDER, reply.text)
             = parse_response(LLM_PROVIDER, Inside(reply.text, open))
        /\ http = ResponseOf(handle_map_action(GenText(Inside(reply.text, open)),
                                               LLM_PROVIDER, {}))

\* C14 as claimed: for a JSON object text J the normalizer returns the same
\* object for "```json J ```", for the bare fence "``` J ```" and for the
\* unfenced J, under either provider.
C14_Original ==
    ActionEnded => (SameAsUnfenced(FENCE_JSON) /\ SameAsUnfenced(FENCE))

\* The text of the response field of a wrapper.
FieldText(text) == dict_get(json_loads(text).val, KEY_RESPONSE).s

\* What stands between the first "{" and the last "}" of a text.
Braced(text) ==
    SubSeq(text,
           CHOOSE i \in 1..Len(text) : text[i] = "{" /\ \A j \in 1..i-1 : text[j] # "{",
           CHOOSE i \in 1..Len(text) : text[i] = "}" /\ \A j \in i+1..Len(text) : text[j] # "}")

\* The text is a wrapper: a JSON object with a response field that is a
\* string, and between the first "{" and the last "}" of that string stands
\* the text of a JSON object.
IsWrapperOfObject(text) ==
    /\ IsObjectText(text)
    /\ dict_has(json_loads(text).val, KEY_RESPONSE)
    /\ dict_get(json_loads(text).val, KEY_RESPONSE).t = "str"
    /\ InSeq("{", FieldText(text))
    /\ InSeq("}", FieldText(text))
    /\ IsObjectText(Braced(FieldText(text)))

\* C15 as claimed: for a wrapper with a response field whose text holds a
\* JSON object, surrounded by prose or not, the normalizer returns the
\* object found between the first "{" and the last "}" of that text, and the
\* request is answered with it.
C15_Original ==
    (ActionEnded /\ LLM_PROVIDER = "ollama" /\ IsWrapperOfObject(reply.text)) =>
        /\ parse_ollama_response(reply.text) = json_loads(Braced(FieldText(reply.text)))
        /\ http = ResponseOf(map_parsed(json_loads(Braced(FieldText(reply.text))), {}))

\* The normalizer of the provider returned a JSON object for the text.
NormalizedToObject(text) ==
    /\ parse_response(LLM_PROVIDER, text).exc = "none"
    /\ parse_response(LLM_PROVIDER, text).val.t = "dict"

\* C16 as claimed: for every text of the generator the normalization of the
\* action pipeline returns a JSON object or fails with its own error (an
\* HTTPException of handle_map_action or of a parser); it never returns a
\* list, a string, a number or null.
C16_Original ==
    ActionEnded =>
        \/ NormalizedToObject(reply.text)
        \/ (http.status = 500 /\ http.detail = "HTTPException")

\* A step of the action pipeline that decoded the text of the generator.
ActionStep ==
    /\ pc = "dispatch"
    /\ pc' = "done"
    /\ intent \notin {INTENT_FILTER, INTENT_HELP}
    /\ reply'.kind = "text"
    /\ reply'.text # <<>>

\* parameters.layer of a command.
LayerOfCommand(cmd) ==
    py_get(py_get(cmd, KEY_PARAMETERS, JDict(<<>>, <<>>)), KEY_LAYER, JNull)

\* The text decodes to a command of intent CLUSTER with the action named,
\* whose layer can be a key of CLUSTER_STATE.
IsClusterCommand(text, cluster_action) ==
    /\ parse_response(LLM_PROVIDER, text).exc = "none"
    /\ parse_response(LLM_PROVIDER, text).val.t = "dict"
    /\ py_get(parse_response(LLM_PROVIDER, text).val, KEY_INTENT, JNull) = JStr(VALUE_CLUSTER)
    /\ py_get(parse_response(LLM_PROVIDER, text).val, KEY_PARAMETERS, JDict(<<>>, <<>>)).t = "dict"
    /\ py_get(py_get(parse_response(LLM_PROVIDER, text).val, KEY_PARAMETERS, JDict(<<>>, <<>>)),
              KEY_ACTION, JNull) = JStr(cluster_action)
    /\ ~unhashable(LayerOfCommand(parse_response(LLM_PROVIDER, text).val))

\* The step sets the entry of the layer to the flag and leaves the entries
\* of all other layers as they were.
SetsOnly(layer, flag) ==
    /\ {p \in CLUSTER_STATE' : p[1] = layer} = {<<layer, flag>>}
    /\ {p \in CLUSTER_STATE' : p[1] # layer} = {p \in CLUSTER_STATE : p[1] # layer}

\* The command with restore_original = {layer: L, action: ADD} attached.
WithRestore(cmd) ==
    dict_set(cmd, KEY_RESTORE_ORIGINAL,
             JDict(<<KEY_LAYER, KEY_ACTION>>, <<LayerOfCommand(cmd), JStr(VALUE_ADD)>>))

\* What C17 says of one step, for the command the text decodes to.
ClusterEffect(cmd) ==
    /\ IsClusterCommand(reply'.text, VALUE_ADD) =>
           /\ SetsOnly(LayerOfCommand(cmd), TRUE)
           /\ http'.status = 200
           /\ http'.action = cmd
    /\ IsClusterCommand(reply'.text, VALUE_REMOVE) =>
           /\ SetsOnly(LayerOfCommand(cmd), FALSE)
           /\ http'.status = 200
           /\ http'.action = WithRestore(cmd)

\* C17: for a command of intent CLUSTER on layer L, action ADD sets
\* CLUSTER_STATE[L] to true and returns the command as decoded; action REMOVE
\* sets CLUSTER_STATE[L] to false, whatever it was before (true after an ADD
\* included), and returns the command with restore_original = {layer: L,
\* action: ADD}; the entries of all other layers stay as they were.
C17_ClusterPostProcessing ==
    [][ActionStep => ClusterEffect(parse_response(LLM_PROVIDER, reply'.text).val)]_vars

\* A CLUSTER/REMOVE command on a layer was answered with restore_original
\* attached, its layer is not clustered, and another layer keeps its entry.
C17_Witness ==
    /\ ActionEnded
    /\ IsClusterCommand(reply.text, VALUE_REMOVE)
    /\ http.status = 200
    /\ dict_has(http.action, KEY_RESTORE_ORIGINAL)
    /\ <<LayerOfCommand(http.action), FALSE>> \in CLUSTER_STATE
    /\ \E p \in CLUSTER_STATE : p[1] # LayerOfCommand(http.action) /\ p[2]

\* The text decodes to a CLUSTER/ADD command that carries no
\* restore_original of its own.
IsAddCommand(text) ==
    /\ IsClusterCommand(text, VALUE_ADD)
    /\ ~dict_has(parse_response(LLM_PROVIDER, text).val, KEY_RESTORE_ORIGINAL)

\* handle_cluster_action leaves the state as it is and returns the command
\* without restore_original.
AppliedAgain(cmd, state) ==
    /\ handle_cluster_action(cmd, state).exc = "none"
    /\ handle_cluster_action(cmd, state).state = state
    /\ ~dict_has(handle_cluster_action(cmd, state).val, KEY_RESTORE_ORIGINAL)

\* What C18 says of one step that applies the CLUSTER/ADD command cmd: the
\* layer is clustered after it and the answer has no restore_original; a step
\* from a state where the layer was clustered already (as after a first
\* application) changes nothing; and applying the command to the state the
\* step leaves changes nothing either.
AddEffect(cmd) ==
    /\ <<LayerOfCommand(cmd), TRUE>> \in CLUSTER_STATE'
    /\ <<LayerOfCommand(cmd), FALSE>> \notin CLUSTER_STATE'
    /\ http'.status = 200
    /\ ~dict_has(http'.action, KEY_RESTORE_ORIGINAL)
    /\ <<LayerOfCommand(cmd), TRUE>> \in CLUSTER_STATE => CLUSTER_STATE' = CLUSTER_STATE
    /\ AppliedAgain(cmd, CLUSTER_STATE')

\* C18: applying the same CLUSTER/ADD command for a layer twice, from any
\* CLUSTER_STATE, leaves the layer clustered, the state after the second
\* application is the state after the first, and neither returned command
\* carries restore_original.
C18_AddIdempotent ==
    [][ActionStep /\ IsAddCommand(reply'.text)
           => AddEffect(parse_response(LLM_PROVIDER, reply'.text).val)]_vars

\* A CLUSTER/ADD command was answered while another layer has an entry of its
\* own and its layer is clustered.
C18_Witness ==
    /\ ActionEnded
    /\ IsAddCommand(reply.text)
    /\ http.status = 200
    /\ ~dict_has(http.action, KEY_RESTORE_ORIGINAL)
    /\ <<LayerOfCommand(http.action), TRUE>> \in CLUSTER_STATE
    /\ \E p \in CLUSTER_STATE : p[1] # LayerOfCommand(http.action) /\ ~p[2]

\* The text decodes to an object that is not empty and is no CLUSTER/ADD and
\* no CLUSTER/REMOVE command: its intent is not CLUSTER, or its intent is
\* CLUSTER and the action of its parameters is neither ADD nor REMOVE.
IsOtherCommand(text) ==
    /\ parse_response(LLM_PROVIDER, text).exc = "none"
    /\ parse_response(LLM_PROVIDER, text).val.t = "dict"
    /\ ~falsy(parse_response(LLM_PROVIDER, text).val)
    /\ \/ py_get(parse_response(LLM_PROVIDER, text).val, KEY_INTENT, JNull) # JStr(VALUE_CLUSTER)
       \/ /\ py_get(parse_response(LLM_PROVIDER, text).val, KEY_PARAMETERS, JDict(<<>>, <<>>)).t = "dict"
          /\ py_get(py_get(parse_response(LLM_PROVIDER, text).val, KEY_PARAMETERS, JDict(<<>>, <<>>)),
                    KEY_ACTION, JNull) \notin {JStr(VALUE_ADD), JStr(VALUE_REMOVE)}

\* The answer to the command cmd is the command itself; a command that holds
\* a number JSON cannot write (NaN) is not answered at all.
ReturnedAsParsed(cmd) ==
    IF json_compliant(cmd)
    THEN http'.status = 200 /\ http'.action = cmd
    ELSE http'.status = 500 /\ http'.detail = "ValueError"

\* C19: the steps of a request routed to HELP or FILTER (every step but that
\* of the action pipeline) leave CLUSTER_STATE unchanged; so does the action
\* pipeline for a command whose intent is not CLUSTER and for a CLUSTER
\* command whose action is neither ADD nor REMOVE, and the action of its
\* response is the object decoded from the text of the generator.
C19_ClusterStateFrame ==
    [][/\ ~(pc = "dispatch" /\ intent \notin {INTENT_FILTER, INTENT_HELP})
            => CLUSTER_STATE' = CLUSTER_STATE
       /\ ActionStep /\ IsOtherCommand(reply'.text)
            => /\ CLUSTER_STATE' = CLUSTER_STATE
               /\ ReturnedAsParsed(parse_response(LLM_PROVIDER, reply'.text).val)]_vars

\* A CLUSTER command whose action is neither ADD nor REMOVE was answered with
\* the command itself while a layer is clustered.
C19_Witness ==
    /\ ActionEnded
    /\ IsOtherCommand(reply.text)
    /\ py_get(http.action, KEY_INTENT, JNull) = JStr(VALUE_CLUSTER)
    /\ LayerOfCommand(http.action) # JNull
    /\ http.status = 200
    /\ http.action = parse_response(LLM_PROVIDER, reply.text).val
    /\ <<LayerOfCommand(http.action), TRUE>> \in CLUSTER_STATE

\* The command is a CLUSTER/REMOVE command.
IsRemove(cmd) ==
    /\ py_get(cmd, KEY_INTENT, JNull) = JStr(VALUE_CLUSTER)
    /\ py_get(py_get(cmd, KEY_PARAMETERS, JDict(<<>>, <<>>)), KEY_ACTION, JNull) = JStr(VALUE_REMOVE)

\* C20 as claimed: for every text of the generator and every CLUSTER_STATE, a
\* command returned by the action pipeline contains restore_original if and
\* only if its intent is CLUSTER and its action is REMOVE.
C20_Original ==
    ActionEnded /\ http.status = 200 =>
        (dict_has(http.action, KEY_RESTORE_ORIGINAL) <=> IsRemove(http.action))

\* C20, amended: a command returned by the action pipeline contains
\* restore_original if and only if it is a CLUSTER/REMOVE command or the
\* object decoded from the text of the generator held restore_original
\* already; for a CLUSTER/REMOVE command its value is {layer: L, action: ADD},
\* whatever the generator wrote there.
C20_RestoreOriginal ==
    ActionEnded /\ http.status = 200 =>
        /\ dict_has(http.action, KEY_RESTORE_ORIGINAL)
              <=> \/ IsRemove(http.action)
                  \/ dict_has(parse_response(LLM_PROVIDER, reply.text).val, KEY_RESTORE_ORIGINAL)
        /\ IsRemove(http.action) =>
              http.action = WithRestore(parse_response(LLM_PROVIDER, reply.text).val)

\* A CLUSTER/REMOVE command that came with a restore_original of its own was
\* answered with restore_original = {layer: L, action: ADD}.
C20_Witness ==
    /\ ActionEnded
    /\ http.status = 200
    /\ IsRemove(http.action)
    /\ dict_has(parse_response(LLM_PROVIDER, reply.text).val, KEY_RESTORE_ORIGINAL)
    /\ dict_get(http.action, KEY_RESTORE_ORIGINAL)
          # dict_get(parse_response(LLM_PROVIDER, reply.text).val, KEY_RESTORE_ORIGINAL)
    /\ dict_get(http.action, KEY_RESTORE_ORIGINAL)
          = JDict(<<KEY_LAYER, KEY_ACTION>>, <<LayerOfCommand(http.action), JStr(VALUE_ADD)>>)

\* ------------------------------------------------------------------ claims C21 to C30

\* The normalization of the action pipeline fails for the text: the parser
\* of the provider raises, or the value it returns is false.
NormalizationFails(text) ==
    \/ parse_response(LLM_PROVIDER, text).exc # "none"
    \/ falsy(parse_response(LLM_PROVIDER, text).val)

\* C21 as claimed: when the normalization of the action response fails, the
\* action pipeline fails with an error whose message holds the text of the
\* generator, and CLUSTER_STATE stays as it was.
C21_Original ==
    [][ActionStep /\ NormalizationFails(reply'.text)
           => /\ http'.status = 500
              /\ http'.detail = "HTTPException"
              /\ contains(map_detail(reply'.text, LLM_PROVIDER), reply'.text)
              /\ CLUSTER_STATE' = CLUSTER_STATE]_vars

\* The intent of the action of a response: of a FILTER response the intent
\* it was built with, of the other responses the intent of their command,
\* None when the command has none.
ResponseIntent ==
    IF http.intent = INTENT_FILTER THEN JStr(INTENT_FILTER)
    ELSE IF http.action.t = "dict" THEN py_get(http.action, KEY_INTENT, JNull)
    ELSE JNull

\* C22 as claimed: for every text of the generator, the action of a
\* successful response has an intent that is FILTER, HELP or one of the 12
\* action types.
C22_Original ==
    pc = "done" /\ http.status = 200 =>
        ResponseIntent \in {JStr(k) : k \in ACTION_KINDS \cup {INTENT_FILTER, INTENT_HELP}}

\* The places of the calls of one kind in the calls of the request.
CallsOf(what) == {i \in 1..Len(calls) : calls[i] \in {what, what \o " failed"}}

\* The place of the call that asked the generator for the SQL or for the
\* command: the second call to the generator, 0 before it is made.
HandlerGeneration ==
    IF Cardinality(CallsOf("generate")) < 2 THEN 0
    ELSE CHOOSE i \in CallsOf("generate") : i > 1

\* The request was answered, or failed, in the branch of the intent.
EndedAs(kind) == pc = "done" /\ intent = kind

\* The calls are those of a /query request: the last request was not one of
\* /load-saved-query or /upload-geojson.
QueryRequest == pc \notin {"loaded", "uploaded"}

SchemaReads ==
    {i \in CallsOf("execute") : HandlerGeneration = 0 \/ i < HandlerGeneration}

\* The executions of the statement: those after the generation of the SQL.
StatementExecutions ==
    {i \in CallsOf("execute") : HandlerGeneration # 0 /\ i > HandlerGeneration}

LastCallFailed ==
    calls # <<>> /\ calls[Len(calls)] \in {"generate failed", "connect failed", "execute failed"}

\* The exception of the last call, when it failed: that of the generator is
\* the one it raised, those of the store are psycopg2's.
LastCallError ==
    CASE calls[Len(calls)] = "generate failed" -> reply.exc
      [] calls[Len(calls)] = "connect failed" -> "OperationalError"
      [] calls[Len(calls)] = "execute failed" -> "DatabaseError"

\* The action pipeline raised after the generator had answered (with a text
\* or with None): the normalization failed, the cluster post-processing
\* raised on the value decoded, or the command cannot be written as JSON.
ActionRaised ==
    /\ pc = "done" /\ intent = INTENT_ACTION /\ reply.kind \in {"text", "null"}
    /\ \/ NormalizationFails(reply.text)
       \/ handle_cluster_action(parse_response(LLM_PROVIDER, reply.text).val, CLUSTER_STATE).exc # "none"
       \/ ~json_compliant(parse_response(LLM_PROVIDER, reply.text).val)

\* The response is a server error and holds no part of a result.
OnlyServerError ==
    /\ http.status = 500
    /\ http.detail # "none"
    /\ http.type = JNull /\ http.action = JNull /\ http.intent = <<>>
    /\ http.ids = <<>> /\ http.sql_query = <<>> /\ http.primary_layer = None

\* C24: a failure of the classification never fails the request: nothing is
\* raised to query and the request goes on to a handler. A request whose SQL
\* or action pipeline raises (a call to the generator or to the store fails,
\* the normalization or the cluster post-processing raises) ends with one
\* response of status 500 whose detail is the exception raised, and with no
\* part of a result; a request where nothing raised ends with status 200.
C24_ErrorPropagation ==
    /\ raised = "none"
    /\ (logged # "none" /\ pc # "idle") => (intent = INTENT_ACTION /\ (pc = "done" => Len(calls) = 2))
    /\ pc = "done" =>
          /\ (Len(calls) > 1 /\ LastCallFailed) => (OnlyServerError /\ http.detail = LastCallError)
          /\ ActionRaised => OnlyServerError
          /\ (LastCallFailed /\ Len(calls) > 1) \/ ActionRaised \/ http.status = 200

\* A FILTER request whose statement the store rejected ended with status 500
\* and the error of the store in its detail.
C24_Witness ==
    /\ EndedAs(INTENT_FILTER)
    /\ HandlerGeneration # 0
    /\ calls[Len(calls)] = "execute failed"
    /\ executed # <<>>
    /\ http.status = 500
    /\ http.detail = "DatabaseError"
    /\ http.ids = <<>>

\* The backend was not reached or answered with a status that is no success.
Unavailable(b) == b.status \in {"unreachable", "error"}

\* The backend answered with success and a payload without a usable text.
NoUsableText(b) == b.status = "ok" /\ b.payload \in {"malformed", "no text"}

\* The exceptions that leave generate_response under the provider.
EscapingErrors ==
    {generate_response(LLM_PROVIDER, o).exc : o \in BackendOutcomes({})} \ {"none"}

\* C25 as claimed: under both providers generate_response returns the text
\* or fails with one of two errors told apart by their type: one when the
\* backend is not reached or answers with a status that is no success, the
\* other when the status is success and the payload has no usable text; no
\* exception of another kind leaves it.
C25_Original ==
    backend # NoBackend =>
        /\ (backend.status = "ok" /\ backend.payload = "text") => reply.kind = "text"
        /\ (Unavailable(backend) \/ NoUsableText(backend)) => reply.kind = "raise"
        /\ reply.kind = "raise" =>
               \A o \in BackendOutcomes({}) :
                   generate_response(LLM_PROVIDER, o).exc = reply.exc
                       => (Unavailable(o) <=> Unavailable(backend))
        /\ Cardinality(EscapingErrors) <= 2

\* The filter pipeline answered the request.
FilterAnswered == pc = "done" /\ intent = INTENT_FILTER /\ http.status = 200

\* C27: the ids of a FILTER response are the first column of every row the
\* store returned, one id per row and in the order of the rows, and the
\* sql_query of the response is the one statement that was executed.
C27_FilterFidelity ==
    FilterAnswered =>
        /\ Len(http.ids) = Len(fetched)
        /\ \A i \in 1..Len(fetched) : http.ids[i] = fetched[i][1]
        /\ executed = <<http.sql_query>>
        /\ http.sql_query = sql.sql_query

\* C27 witness: two rows, the first of two columns, answered in their order.
C27_Witness ==
    /\ FilterAnswered
    /\ fetched = <<<<8, 7>>, <<7>>>>
    /\ http.ids = <<8, 7>>
    /\ http.sql_query # <<>>

\* How many times a call stands in a trace.
Count(trace, what) == Cardinality({i \in 1..Len(trace) : trace[i] = what})

\* query_postgis opened a connection in this request and gave it a statement.
QueryPostgisExecuted == pc \in {"done", "loaded"} /\ executed # <<>>

\* C30 as claimed: whether the statement succeeds or the store raises on it,
\* the cursor and the connection query_postgis opened are closed before it
\* returns or raises, so that every connection a filter or load-saved-query
\* request opened is closed when the request ends.
C30_Original ==
    QueryPostgisExecuted => Count(calls, "connect") = Count(calls, "close")

\* The upload endpoint answered; the features of the document it decoded.
Uploaded == pc = "uploaded"

UploadedFeatures == py_get(json_loads(file).val, <<"f","e","a","t","u","r","e","s">>, JNull).a

\* The calls of the trace before its first call `what`.
Before(trace, what) ==
    SubSeq(trace, 1, (CHOOSE i \in 1..Len(trace) :
                          trace[i] = what /\ \A j \in 1..i - 1 : trace[j] # what) - 1)

\* C28: an upload is all or nothing. commit is called only after the table
\* was created and every feature of the file inserted; when the creation of
\* the table or an insert fails, rollback is called, commit is not, and the
\* request is answered with an error; once the connection is open, the
\* cursor and the connection are closed at the end on every path.
C28_UploadAllOrNothing ==
    Uploaded =>
        /\ (InSeq("commit", calls) \/ InSeq("commit failed", calls)) =>
               Before(calls, IF InSeq("commit", calls) THEN "commit" ELSE "commit failed")
                 = <<"connect", "create table">> \o [i \in 1..Len(UploadedFeatures) |-> "insert"]
        /\ (InSeq("create table failed", calls) \/ InSeq("insert failed", calls)) =>
               /\ InSeq("rollback", calls)
               /\ ~InSeq("commit", calls) /\ ~InSeq("commit failed", calls)
               /\ calls[Len(calls) - 2] \in {"create table failed", "insert failed"}
               /\ http.status = 500
        /\ InSeq("connect", calls) =>
               /\ calls[1] = "connect" /\ calls[Len(calls)] = "close"
               /\ Count(calls, "connect") = 1 /\ Count(calls, "close") = 1
        /\ http.status = 200 <=> InSeq("commit", calls)

\* C28 witness: the second insert failed after the table was created and the
\* first feature inserted; the upload was rolled back and closed.
C28_Witness ==
    /\ Uploaded
    /\ calls = <<"connect", "create table", "insert", "insert failed", "rollback", "close">>
    /\ http.status = 500

\* The file is one the validation rejects: no JSON, no object, a type other
\* than FeatureCollection, or features that are no list.
InvalidUpload ==
    \/ json_loads(file).exc # "none"
    \/ json_loads(file).val.t # "dict"
    \/ py_get(json_loads(file).val, KEY_TYPE, JNull)
         # JStr(<<"F","e","a","t","u","r","e","C","o","l","l","e","c","t","i","o","n">>)
    \/ py_get(json_loads(file).val, <<"f","e","a","t","u","r","e","s">>, JNull).t # "list"

\* C29 as claimed: a file that is no valid JSON, whose JSON is no object,
\* whose type is not FeatureCollection or whose features are no list is
\* rejected with status 400, and no database connection is opened for it.
C29_Original ==
    (Uploaded /\ InvalidUpload) => (http.status = 400 /\ calls = <<>>)

\* Every request that was accepted has been answered.
AllAnswered == threads # <<>> /\ \A p \in 1..Len(threads) : threads[p].pc = "done"

\* The response the reply r gives when CLUSTER_STATE is empty and no other
\* request runs, for what handle_map_action makes of r then.
OwnResponse(made) ==
    IF made.exc # "none" THEN ServerError(made.exc) ELSE ActionResponse(made.type, made.action)

\* What the command of the reply r writes: the flag of its layer when it
\* is a CLUSTER/ADD or CLUSTER/REMOVE command, nothing otherwise.
WrittenBy(r) ==
    IF r.kind # "text" \/ r.text = <<>> THEN {}
    ELSE UNION {
        IF \/ parsed.exc # "none"
           \/ parsed.val.t # "dict"
           \/ py_get(parsed.val, KEY_INTENT, JNull) # JStr(VALUE_CLUSTER)
           \/ py_get(parsed.val, KEY_PARAMETERS, JDict(<<>>, <<>>)).t # "dict"
           \/ unhashable(LayerOfCommand(parsed.val))
        THEN {}
        ELSE IF py_get(py_get(parsed.val, KEY_PARAMETERS, JDict(<<>>, <<>>)), KEY_ACTION, JNull)
                  = JStr(VALUE_ADD)
        THEN {<<LayerOfCommand(parsed.val), TRUE>>}
        ELSE IF py_get(py_get(parsed.val, KEY_PARAMETERS, JDict(<<>>, <<>>)), KEY_ACTION, JNull)
                  = JStr(VALUE_REMOVE)
        THEN {<<LayerOfCommand(parsed.val), FALSE>>}
        ELSE {} : parsed \in {parse_response(LLM_PROVIDER, r.text)}}

\* The entries a sequence of writes leaves: of every layer, the one that
\* was written last.
LastWrites(writes) ==
    {e \in UNION {writes[i] : i \in 1..Len(writes)} :
        \E i \in 1..Len(writes) :
            /\ e \in writes[i]
            /\ \A j \in i + 1..Len(writes) : \A f \in writes[j] : f[1] # e[1]}

\* C26: requests that run side by side share CLUSTER_STATE alone, and the
\* race on it is benign: under every interleaving the response of a request
\* is the one its own reply of the generator gives, whatever CLUSTER_STATE
\* holds and whatever the other requests do, and when all requests are
\* answered CLUSTER_STATE[L] is the flag of the CLUSTER command on L that
\* was applied last, and L has no entry when no command on L was applied.
C26_BenignRace ==
    /\ \A p \in 1..Len(threads) :
           threads[p].pc = "done" =>
               \A made \in {handle_map_action(threads[p].reply, LLM_PROVIDER, {})} :
                   threads[p].http = OwnResponse(made)
    /\ AllAnswered =>
           CLUSTER_STATE = LastWrites([i \in 1..Len(applied) |-> WrittenBy(threads[applied[i]].reply)])

\* C26 witness: the request accepted first got its ADD on a layer applied
\* after the REMOVE on the same layer of the request accepted second, and
\* the layer is clustered; each got the response of its own command.
C26_Witness ==
    /\ AllAnswered
    /\ applied = <<2, 1>>
    /\ WrittenBy(threads[1].reply) = {<<JStr(<<"p","a","r","k","s">>), TRUE>>}
    /\ WrittenBy(threads[2].reply) = {<<JStr(<<"p","a","r","k","s">>), FALSE>>}
    /\ CLUSTER_STATE = {<<JStr(<<"p","a","r","k","s">>), TRUE>>}
    /\ ~dict_has(threads[1].http.action, KEY_RESTORE_ORIGINAL)
    /\ dict_has(threads[2].http.action, KEY_RESTORE_ORIGINAL)
====
